---- MODULE Spec2Model ----
(***************************************************************************)
(* Adaptive proficiency-assessment engines of the repository.              *)
(*                                                                         *)
(*   english_test_app.py : st.session_state is the record  ss              *)
(*   app.py              : st.session_state.adaptive is the record adaptive *)
(*                         (Absent while the key is not set) and           *)
(*                         st.session_state.started is `started` (None     *)
(*                         while the key is not set); a step is one run    *)
(*                         of the script.                                  *)
(*                                                                         *)
(* The two programs are separate Streamlit apps; `program` says which one  *)
(* is running and never changes.  `bank` is what the running program sees  *)
(* of the item bank: for app.py the number of eligible multiple-choice     *)
(* items per level, for english_test_app the advanced levels whose items   *)
(* carry a group_id (those levels are served by the grouped flow).         *)
(*                                                                         *)
(* Representation of the two unbounded logs:                               *)
(*   history        [len, last]   its length and the entry appended last   *)
(*   block_results  sequence of entries; the counters of an entry are kept *)
(*                  in full for the entry appended last (last_result) and  *)
(*                  as level/outcome for all of them.                      *)
(*                                                                         *)
(* `form` is the question form of english_test_app (the current question,  *)
(* the value of its widgets, the warning on screen, the used ids of the    *)
(* block, the last feedback); `bank_file` is the file load_item_bank of    *)
(* english_test_bank.py is called on and `loaded` the outcome of the call. *)
(* `draw` is the catalog and the block pick_question_for_block and         *)
(* start_group_for_block are called on, in the session ss.                 *)
(* Spec runs the two engines (SpecSession one fair session of them,        *)
(* SpecRules app.py over every pool size), SpecForm the question form,     *)
(* SpecLoad the loader, SpecDraw the drawing of questions.  `blocks` is    *)
(* one level of an app.py session with the ids of its questions           *)
(* (SpecBlocks).                                                           *)
(***************************************************************************)
EXTENDS Integers, Sequences, FiniteSets, TLC

VARIABLES program, bank, ss, loop, adaptive, form, bank_file, loaded, draw, blocks, started

vars == <<program, bank, ss, loop, adaptive, form, bank_file, loaded, draw, blocks, started>>

None == "None"

\* ---------------------------------------------------------------- bounds
\* Largest number of questions sharing one group_id at an advanced level.
MaxGroup == 15
\* Eligible multiple-choice items of a thin level of the app.py bank.
SmallPool == 2
\* Eligible multiple-choice items of a well-stocked level of the app.py bank.
FullPool == 12

\* Longest value typed into a text_input, longest text typed into a text_area.
MaxAnswerLen == 2
MaxText == 7

\* Number of answers a session of the question form records.
FormMaxItems == 3

\* Number of entries of a document of the item bank.
MaxEntries == 2

\* Largest pool of a level in the specification of the block rules.
MaxAvailable == 13

\* Items of the level of the catalog questions are drawn from, and answers
\* counted since the session opened that level.
MaxCatalog == 3
MaxPresented == 4


\* ------------------------------------------------------------- constants
LEVEL_SEQUENCE == <<"A1", "A2", "B1", "B2", "C1", "C2">>
LEVELS == LEVEL_SEQUENCE
LevelSet == {LEVEL_SEQUENCE[i] : i \in 1..Len(LEVEL_SEQUENCE)}
ADVANCED_LEVELS == {"C1", "C2"}
EARLY_STOP_WRONGS == 3
MAX_QUESTIONS == 50
EARLY_STOP_ERRORS == 3
MAX_TOTAL_ITEMS == 50

LEVEL_RULES ==
  [l \in LevelSet |->
     IF l \in {"C1", "C2"}
       THEN [block_size |-> 12, promotion_threshold |-> 9]
       ELSE [block_size |-> 10, promotion_threshold |-> 8]]

\* LEVEL_SEQUENCE.index(level), 0-based as in the source.
LevelIndex(level) == (CHOOSE i \in 1..Len(LEVEL_SEQUENCE) : LEVEL_SEQUENCE[i] = level) - 1
\* The entry one place too low (a 1-based idx read as 0-based).
LevelAt_off_by_one(idx) == LEVEL_SEQUENCE[IF idx = 0 THEN 1 ELSE idx]

\* LEVEL_SEQUENCE[idx] for a 0-based idx.
LevelAt(idx) == LEVEL_SEQUENCE[idx + 1]

is_advanced_level(level) == level \in ADVANCED_LEVELS

\* ======================================================================
\* english_test_app.py
\* ======================================================================
NoGroup == [level |-> None, size |-> 0]
NoEntry == [level |-> None, correct |-> FALSE]
NoResult == [level |-> None, correct |-> 0, wrong |-> 0, presented |-> 0, passed |-> FALSE]
Idle == [remaining |-> 0, level |-> None]

new_block(level) ==
  [level |-> level, presented |-> 0, correct |-> 0, wrong |-> 0]

\* reset_adaptive_state: the session as a fresh run starts it.
reset_adaptive_state ==
  [level_idx |-> 0,
   block |-> new_block(LEVEL_SEQUENCE[1]),
   passed_blocks |-> [l \in LevelSet |-> 0],
   history |-> [len |-> 0, last |-> NoEntry],
   block_results |-> << >>,
   last_result |-> NoResult,
   finished |-> FALSE,
   final_level |-> None,
   confirmed |-> FALSE,
   current_group_state |-> NoGroup]

\* clear_current_group_state
clear_current_group_state(s) == [s EXCEPT !.current_group_state = NoGroup]

\* finish_adaptive starting the session over instead of ending it.
finish_adaptive_restart(s, level, confirmed) == reset_adaptive_state

\* finish_adaptive: the outcome is stored and the open group dropped.
finish_adaptive(s, level, confirmed) ==
  [clear_current_group_state(s) EXCEPT
     !.finished = TRUE,
     !.final_level = level,
     !.confirmed = confirmed,
     !.level_idx = LevelIndex(level)]

RECURSIVE HighestPassed(_, _)
\* The last index (0-based) of LEVEL_SEQUENCE[1..n] with a pass, -1 when none.
HighestPassed(s, n) ==
  IF n = 0 THEN -1
  ELSE IF s.passed_blocks[LEVEL_SEQUENCE[n]] > 0 THEN n - 1
  ELSE HighestPassed(s, n - 1)

best_level_guess(s) ==
  LET highest_idx == HighestPassed(s, Len(LEVEL_SEQUENCE))
  IN  IF highest_idx # -1 THEN LevelAt(highest_idx) ELSE LevelAt(s.level_idx)

record_block_result(s, block, passed) ==
  [s EXCEPT
     !.block_results = Append(@, [level |-> block.level, passed |-> passed]),
     !.last_result = [level |-> block.level, correct |-> block.correct,
                      wrong |-> block.wrong, presented |-> block.presented,
                      passed |-> passed]]

\* The block is over: full, or three wrong answers before the threshold.
block_finished(block) ==
  LET rule == LEVEL_RULES[block.level]
  IN  \/ block.presented >= rule.block_size
      \/ (block.wrong >= EARLY_STOP_WRONGS /\ block.correct < rule.promotion_threshold)

\* evaluate_block_completion asking for three passes at a level, not two.
evaluate_block_completion_three_passes(s0) ==
  LET block == s0.block
      level == block.level
      threshold == LEVEL_RULES[level].promotion_threshold
      passed == block.correct >= threshold
      s1 == record_block_result(s0, block, passed)
      s2 == [s1 EXCEPT !.passed_blocks[level] = @ + 1]
  IN  IF ~block_finished(block) THEN s0
      ELSE IF passed THEN
        IF level = "C2" THEN finish_adaptive(s2, "C2", TRUE)
        ELSE IF s2.passed_blocks[level] >= 3 THEN finish_adaptive(s2, level, TRUE)
        ELSE IF s2.level_idx < Len(LEVEL_SEQUENCE) - 1
          THEN [s2 EXCEPT !.level_idx = @ + 1,
                          !.block = new_block(LevelAt(s2.level_idx + 1))]
          ELSE finish_adaptive(s2, level, TRUE)
      ELSE
        IF s1.level_idx = 0
          THEN [s1 EXCEPT !.block = new_block(level)]
          ELSE finish_adaptive(s1, LevelAt(s1.level_idx - 1), TRUE)

evaluate_block_completion(s0) ==
  LET block == s0.block
      level == block.level
      threshold == LEVEL_RULES[level].promotion_threshold
      passed == block.correct >= threshold
      s1 == record_block_result(s0, block, passed)
      s2 == [s1 EXCEPT !.passed_blocks[level] = @ + 1]
  IN  IF ~block_finished(block) THEN s0
      ELSE IF passed THEN
        IF level = "C2" THEN finish_adaptive(s2, "C2", TRUE)
        ELSE IF s2.passed_blocks[level] >= 2 THEN finish_adaptive(s2, level, TRUE)
        ELSE IF s2.level_idx < Len(LEVEL_SEQUENCE) - 1
          THEN [s2 EXCEPT !.level_idx = @ + 1,
                          !.block = new_block(LevelAt(s2.level_idx + 1))]
          ELSE finish_adaptive(s2, level, TRUE)
      ELSE
        IF s1.level_idx = 0
          THEN [s1 EXCEPT !.block = new_block(level)]
          ELSE finish_adaptive(s1, LevelAt(s1.level_idx - 1), TRUE)

\* process_adaptive_answer with the wrong counter bumped on every answer
\* (the increment placed outside the else branch).
process_adaptive_answer_wrong_always(s, question, is_correct) ==
  LET s1 == [s EXCEPT
               !.block.presented = @ + 1,
               !.block.correct = IF is_correct THEN @ + 1 ELSE @,
               !.block.wrong = @ + 1,
               !.history = [len |-> @.len + 1,
                            last |-> [level |-> question.level, correct |-> is_correct]]]
      s2 == evaluate_block_completion(s1)
  IN  IF ~s2.finished /\ s2.history.len >= MAX_QUESTIONS
        THEN finish_adaptive(s2, best_level_guess(s2), FALSE)
        ELSE s2

\* question is the answered item (its level), is_correct the scorer's verdict.
process_adaptive_answer(s, question, is_correct) ==
  LET s1 == [s EXCEPT
               !.block.presented = @ + 1,
               !.block.correct = IF is_correct THEN @ + 1 ELSE @,
               !.block.wrong = IF is_correct THEN @ ELSE @ + 1,
               !.history = [len |-> @.len + 1,
                            last |-> [level |-> question.level, correct |-> is_correct]]]
      s2 == evaluate_block_completion(s1)
  IN  IF ~s2.finished /\ s2.history.len >= MAX_QUESTIONS
        THEN finish_adaptive(s2, best_level_guess(s2), FALSE)
        ELSE s2

\* The level is served by render_advanced_group_flow (it has grouped items).
GroupedFlow(level) == is_advanced_level(level) /\ level \in bank.grouped

\* render_adaptive_mode, "Responder" / "Submit answer" with a complete response.
SubmitAnswer ==
  /\ program = "english_test_app"
  /\ ~ss.finished
  /\ loop = Idle
  /\ ~GroupedFlow(ss.block.level)
  /\ \E is_correct \in BOOLEAN :
       ss' = process_adaptive_answer(ss, [level |-> ss.block.level], is_correct)
  /\ UNCHANGED <<program, bank, loop, adaptive, form, bank_file, loaded, draw, blocks, started>>

\* render_advanced_group_flow drawing the next group (start_group_for_block).
StartGroup ==
  /\ program = "english_test_app"
  /\ ~ss.finished
  /\ loop = Idle
  /\ GroupedFlow(ss.block.level)
  /\ ss.current_group_state = NoGroup
  /\ \E n \in 1..MaxGroup :
       ss' = [ss EXCEPT !.current_group_state = [level |-> ss.block.level, size |-> n]]
  /\ UNCHANGED <<program, bank, loop, adaptive, form, bank_file, loaded, draw, blocks, started>>

\* One iteration of the "Submit part" loop; the last one clears the group.
FoldGroupAnswer(s, level, remaining, is_correct) ==
  LET s1 == process_adaptive_answer(s, [level |-> level], is_correct)
  IN  IF remaining = 1 THEN clear_current_group_state(s1) ELSE s1

\* "Submit part" with every response complete: the loop starts.
SubmitPart ==
  /\ program = "english_test_app"
  /\ ~ss.finished
  /\ loop = Idle
  /\ ss.current_group_state # NoGroup
  /\ LET g == ss.current_group_state IN
       /\ \E is_correct \in BOOLEAN :
            ss' = FoldGroupAnswer(ss, g.level, g.size, is_correct)
       /\ loop' = IF g.size = 1 THEN Idle
                  ELSE [remaining |-> g.size - 1, level |-> g.level]
  /\ UNCHANGED <<program, bank, adaptive, form, bank_file, loaded, draw, blocks, started>>

\* The following iterations of the same loop.
SubmitPartNext ==
  /\ program = "english_test_app"
  /\ loop # Idle
  /\ \E is_correct \in BOOLEAN :
       ss' = FoldGroupAnswer(ss, loop.level, loop.remaining, is_correct)
  /\ loop' = IF loop.remaining = 1 THEN Idle
             ELSE [loop EXCEPT !.remaining = @ - 1]
  /\ UNCHANGED <<program, bank, adaptive, form, bank_file, loaded, draw, blocks, started>>

\* "Reiniciar test adaptativo" on the result page.
Reset ==
  /\ program = "english_test_app"
  /\ ss.finished
  /\ loop = Idle
  /\ ss' = reset_adaptive_state
  /\ UNCHANGED <<program, bank, loop, adaptive, form, bank_file, loaded, draw, blocks, started>>

\* ======================================================================
\* app.py
\* ======================================================================
NoBlock ==
  [level |-> None, index |-> 0, correct |-> 0, incorrect |-> 0, answered |-> 0,
   threshold |-> 0, block_size |-> 0, display_id |-> 0]
NoAppResult ==
  [level |-> None, success |-> FALSE, correct |-> 0, total |-> 0, threshold |-> 0,
   reason |-> None]

\* The percentage rounded down (math.floor for math.ceil).
CeilPct_floor(block_size, level) ==
  IF level \in {"C1", "C2"} THEN (3 * block_size) \div 4
                            ELSE (4 * block_size) \div 5

\* math.ceil(block_size * 0.75) and math.ceil(block_size * 0.8), in integers.
CeilPct(block_size, level) ==
  IF level \in {"C1", "C2"} THEN (3 * block_size + 3) \div 4
                            ELSE (4 * block_size + 4) \div 5

Max(a, b) == IF a >= b THEN a ELSE b
Min(a, b) == IF a <= b THEN a ELSE b

get_block_rules(level, available) ==
  LET desired_size == IF level \in {"C1", "C2"} THEN 12 ELSE 10
      block_size == IF available < 5 THEN available
                    ELSE Max(5, Min(desired_size, available))
      threshold == Max(1, CeilPct(block_size, level))
  IN  [block_size |-> block_size, threshold |-> threshold]

\* start_new_block leaving current_level_idx as it was.
start_new_block_index_kept(a, level, available) ==
  LET rules == get_block_rules(level, available)
  IN  [a EXCEPT
         !.block_number = @ + 1,
         !.current_block =
            [level |-> level, index |-> 0, correct |-> 0, incorrect |-> 0,
             answered |-> 0, threshold |-> rules.threshold,
             block_size |-> rules.block_size, display_id |-> a.block_number + 1]]

\* available is len(get_supported_pool(level, bank)), at least 1.
start_new_block(a, level, available) ==
  LET rules == get_block_rules(level, available)
  IN  [a EXCEPT
         !.block_number = @ + 1,
         !.current_level_idx = LevelIndex(level),
         !.current_block =
            [level |-> level, index |-> 0, correct |-> 0, incorrect |-> 0,
             answered |-> 0, threshold |-> rules.threshold,
             block_size |-> rules.block_size, display_id |-> a.block_number + 1]]

\* "adaptive" is not a key of st.session_state.
Absent == [absent |-> TRUE]

init_adaptive_state(b) ==
  start_new_block(
    [current_level_idx |-> 0,
     history |-> [len |-> 0, last |-> NoEntry],
     finished |-> FALSE,
     final_level |-> None,
     total_questions |-> 0,
     block_number |-> 0,
     current_block |-> NoBlock,
     block_results |-> << >>,
     last_result |-> NoAppResult,
     success_streaks |-> [l \in LevelSet |-> 0],
     fail_counts |-> [l \in LevelSet |-> 0],
     last_successful_level |-> None],
    LEVELS[1], b.available[LEVELS[1]])

\* The three assignments that end a session in finalize_block.
AppFinish(a, level) ==
  [a EXCEPT !.final_level = level, !.finished = TRUE, !.current_block = NoBlock]

finalize_block(a0, success, b, reason) ==
  LET block == a0.current_block
      level == block.level
      a1 == [a0 EXCEPT
               !.block_results = Append(@, [level |-> level, success |-> success]),
               !.last_result = [level |-> level, success |-> success,
                                correct |-> block.correct, total |-> block.answered,
                                threshold |-> block.threshold, reason |-> reason]]
      won == [a1 EXCEPT !.success_streaks[level] = @ + 1,
                        !.last_successful_level = level]
      lost == [a1 EXCEPT !.fail_counts[level] = @ + 1,
                         !.success_streaks[level] = 0]
      next_level == LevelAt(Min(Len(LEVELS) - 1, LevelIndex(level) + 1))
  IN  IF success THEN
        IF won.success_streaks[level] >= 2 \/ LevelIndex(level) = Len(LEVELS) - 1
          THEN AppFinish(won, level)
          ELSE start_new_block(won, next_level, b.available[next_level])
      ELSE
        IF LevelIndex(level) = 0 THEN
          IF lost.fail_counts[level] < 2 /\ lost.total_questions < MAX_TOTAL_ITEMS
            THEN start_new_block(lost, level, b.available[level])
            ELSE AppFinish(lost, level)
        ELSE
          AppFinish(lost, IF lost.last_successful_level # None
                            THEN lost.last_successful_level
                            ELSE LevelAt(LevelIndex(level) - 1))

\* The outcome render_adaptive_test derives from the counters: <<success, reason>>,
\* success being None while the block goes on.
BlockOutcome(block, total_questions) ==
  LET passed == block.correct >= block.threshold
      local == IF passed THEN <<"True", "threshold">>
               ELSE IF block.incorrect >= EARLY_STOP_ERRORS /\ block.correct < block.threshold
                 THEN <<"False", "early_stop">>
               ELSE IF block.answered >= block.block_size
                 THEN <<IF passed THEN "True" ELSE "False", "completed">>
               ELSE <<None, "continuing">>
  IN  IF total_questions >= MAX_TOTAL_ITEMS /\ local[1] = None
        THEN <<IF passed THEN "True" ELSE "False", "global_limit">>
        ELSE local

\* render_adaptive_test folding the answer render_question returned.
FoldAnswer(a, b, result) ==
  LET block == a.current_block
      nb == [block EXCEPT !.answered = @ + 1, !.index = @ + 1,
                          !.correct = IF result THEN @ + 1 ELSE @,
                          !.incorrect = IF result THEN @ ELSE @ + 1]
      a1 == [a EXCEPT
               !.history = [len |-> @.len + 1,
                            last |-> [level |-> block.level, correct |-> result]],
               !.total_questions = @ + 1,
               !.current_block = nb]
      outcome == BlockOutcome(nb, a1.total_questions)
  IN  IF outcome[1] # None
        THEN finalize_block(a1, outcome[1] = "True", b, outcome[2])
        ELSE a1

\* render_adaptive_test, "Responder y continuar" with an option selected.
AnswerQuestion ==
  /\ program = "app"
  /\ started = "True"
  /\ adaptive # Absent
  /\ ~adaptive.finished
  /\ \E result \in BOOLEAN : adaptive' = FoldAnswer(adaptive, bank, result)
  /\ UNCHANGED <<program, bank, ss, loop, form, bank_file, loaded, draw, blocks, started>>

\* "Realizar un nuevo diagnostico": the script run of the click deletes every
\* key of st.session_state and asks for a rerun.
NewDiagnosis ==
  /\ program = "app"
  /\ started = "True"
  /\ adaptive # Absent
  /\ adaptive.finished
  /\ adaptive' = Absent
  /\ started' = None
  /\ UNCHANGED <<program, bank, ss, loop, form, bank_file, loaded, draw, blocks>>

\* main, a script run with no "started" key: the key is set to False and the
\* landing page is shown.
ShowLanding ==
  /\ program = "app"
  /\ started = None
  /\ started' = "False"
  /\ UNCHANGED <<program, bank, ss, loop, adaptive, form, bank_file, loaded, draw, blocks>>

\* render_landing_page returns bool(agree and start_button).
render_landing_page(agree, start_button) == agree /\ start_button

\* main, a script run on the landing page: agree is the consent checkbox and
\* start_button the click on "COMENZAR TEST ADAPTATIVO".
StartTest ==
  /\ program = "app"
  /\ started = "False"
  /\ \E agree, start_button \in BOOLEAN :
       started' = IF render_landing_page(agree, start_button) THEN "True" ELSE "False"
  /\ UNCHANGED <<program, bank, ss, loop, adaptive, form, bank_file, loaded, draw, blocks>>

\* render_adaptive_test, the script run that follows the start: "adaptive" is
\* not in st.session_state and init_adaptive_state(bank) creates it.
OpenTest ==
  /\ program = "app"
  /\ started = "True"
  /\ adaptive = Absent
  /\ adaptive' = init_adaptive_state(bank)
  /\ UNCHANGED <<program, bank, ss, loop, form, bank_file, loaded, draw, blocks, started>>

\* ----------------------------------------------------------------------
\* app.py : the questions of a block
\* ----------------------------------------------------------------------
\* random.shuffle(pool) followed by pool[:size]: any size items of the pool.
Samples(pool, size) ==
  IF Cardinality(pool) = size THEN {pool}
  ELSE {s \in SUBSET pool : Cardinality(s) = size}

\* start_new_block drawing from every eligible item, used or not.
start_new_block_sample_unfiltered(level, eligible, used_questions) ==
  LET rules == get_block_rules(level, Cardinality(eligible))
  IN  {[questions |-> questions,
        used_questions |-> used_questions \cup questions,
        block_size |-> rules.block_size] :
         questions \in Samples(eligible, rules.block_size)}

\* What start_new_block can draw: eligible is the set of ids of
\* get_supported_pool(level, bank), used_questions the ids listed in
\* state["used_questions"][level].  The questions are the first block_size
\* items of the shuffled pool; their order is left out.
start_new_block_sample(level, eligible, used_questions) ==
  LET rules == get_block_rules(level, Cardinality(eligible))
      unused == eligible \ used_questions
      restart == Cardinality(unused) < rules.block_size
      pool == IF restart THEN eligible ELSE unused
  IN  {[questions |-> questions,
        used_questions |-> (IF restart THEN {} ELSE used_questions) \cup questions,
        block_size |-> rules.block_size] :
         questions \in Samples(pool, rules.block_size)}

\* The smallest A1 pool two blocks can be drawn from without a repeat: twice
\* the size of an A1 block.
RichPool == 2 * get_block_rules(LEVELS[1], FullPool).block_size

\* blocks: one level of an app.py session as start_new_block and the indexing
\* of render_adaptive_test see it: the eligible ids of the level, its used
\* list, the current block (its questions, index, answered, block_size; current
\* says there is one) and the number of blocks started at the level.
NoBlocks ==
  [level |-> None, eligible |-> {}, used_questions |-> {}, questions |-> {},
   index |-> 0, answered |-> 0, block_size |-> 0, started |-> 0, current |-> FALSE]

Started(sample) ==
  [blocks EXCEPT !.questions = sample.questions,
                 !.used_questions = sample.used_questions,
                 !.block_size = sample.block_size,
                 !.index = 0,
                 !.answered = 0,
                 !.started = @ + 1,
                 !.current = TRUE]

\* The first block of the level: start_new_block called by init_adaptive_state
\* (A1) or by finalize_block after a pass one level below.
OpenBlock ==
  /\ blocks.level # None
  /\ blocks.started = 0
  /\ \E sample \in start_new_block_sample(blocks.level, blocks.eligible,
                                          blocks.used_questions) :
       blocks' = Started(sample)
  /\ UNCHANGED <<program, bank, ss, loop, adaptive, form, bank_file, loaded, draw, started>>

\* render_adaptive_test folding an answer to questions[index].  The answer
\* leaves the block open, or closes it (always when the block is full); a
\* closed block is followed by another one at the level (a first failed A1
\* block) or by none (current_block is None or a block of the next level).
\* Which of these happens is decided by the verdicts, as in AnswerQuestion.
AnswerInBlock ==
  /\ blocks.current
  /\ blocks.index < Cardinality(blocks.questions)
  /\ LET answered == [blocks EXCEPT !.index = @ + 1, !.answered = @ + 1]
     IN  \/ /\ answered.answered < answered.block_size
            /\ blocks' = answered
         \/ /\ blocks.level = LEVELS[1]
            /\ blocks.started < 2
            /\ \E sample \in start_new_block_sample(blocks.level, blocks.eligible,
                                                    blocks.used_questions) :
                 blocks' = [Started(sample) EXCEPT !.eligible = blocks.eligible]
         \/ blocks' = [NoBlocks EXCEPT !.level = blocks.level,
                                       !.eligible = blocks.eligible,
                                       !.used_questions = blocks.used_questions,
                                       !.started = blocks.started]
  /\ UNCHANGED <<program, bank, ss, loop, adaptive, form, bank_file, loaded, draw, started>>

\* ======================================================================
\* english_test_app.py : the question form of render_adaptive_mode
\* ======================================================================
\* A str is a sequence of characters; NoText is Python's None where a str is
\* expected.  "w" and "W" are word characters, " " is whitespace.
NoText == <<None>>

WRITING_TYPE == "open_text"

\* value.strip() from the left and from the right.
RECURSIVE LStrip(_)
LStrip(value) ==
  IF value = <<>> THEN value
  ELSE IF Head(value) = " " THEN LStrip(Tail(value)) ELSE value

RECURSIVE RStrip(_)
RStrip(value) ==
  IF value = <<>> THEN value
  ELSE IF value[Len(value)] = " " THEN RStrip(SubSeq(value, 1, Len(value) - 1))
  ELSE value

normalize_free_text(value) ==
  IF value = NoText THEN <<>> ELSE RStrip(LStrip(value))

\* str.lower()
Lower(value) == [i \in 1..Len(value) |-> IF value[i] = "W" THEN "w" ELSE value[i]]

\* " ".join(value.split()) on a stripped value: runs of spaces become one space.
RECURSIVE JoinSplit(_)
JoinSplit(value) ==
  IF Len(value) < 2 THEN value
  ELSE IF value[1] = " " /\ value[2] = " " THEN JoinSplit(Tail(value))
  ELSE <<value[1]>> \o JoinSplit(Tail(value))

normalize_for_comparison(value) == JoinSplit(Lower(normalize_free_text(value)))

\* len(re.findall(r"[\w'-]+", value.strip())): the maximal runs of word characters.
count_words(value) ==
  IF value = NoText \/ value = <<>> THEN 0
  ELSE Cardinality({i \in 1..Len(value) :
                      /\ value[i] # " "
                      /\ (i = 1 \/ value[i - 1] = " ")})

\* The list of sub-elements a composite question is made of.
SubItems(question) ==
  IF question.type \in {"cloze_mc", "cloze_open"} THEN question.cloze_items
  ELSE IF question.type = "word_formation" THEN question.word_formation_items
  ELSE IF question.type = "key_transform" THEN question.transform_items
  ELSE <<>>

\* response.get(item["number"]) on the dict a composite widget returns.
ResponseGet(response, number) ==
  IF number \in DOMAIN response THEN response[number] ELSE NoText

\* The numbers of the sub-elements whose response is blank, in item order.
Missing(question, response) ==
  SelectSeq([i \in 1..Len(SubItems(question)) |-> SubItems(question)[i].number],
            LAMBDA n : normalize_free_text(ResponseGet(response, n)) = <<>>)

\* response_is_complete taking any text for a writing item.
response_is_complete_any_text(question, response) ==
  IF question.type = "multiple_choice" THEN response # NoText
  ELSE IF question.type \in {"cloze_mc", "cloze_open", "word_formation", "key_transform"}
    THEN Missing(question, response) = <<>>
  ELSE IF question.type = WRITING_TYPE THEN response # NoText
  ELSE FALSE

response_is_complete(question, response) ==
  IF question.type = "multiple_choice" THEN response # NoText
  ELSE IF question.type \in {"cloze_mc", "cloze_open", "word_formation", "key_transform"}
    THEN Missing(question, response) = <<>>
  ELSE IF question.type = WRITING_TYPE
    THEN /\ response # NoText
         /\ question.min_words <= count_words(response)
         /\ count_words(response) <= question.max_words
  ELSE FALSE

\* validate_response returns None or a message; a message is its text with the
\* values formatted into it.
NoWarning == [text |-> None, missing |-> <<>>, limit |-> 0, actual |-> 0]

Message(text, missing, limit, actual) ==
  [text |-> text, missing |-> missing, limit |-> limit, actual |-> actual]

validate_response(question, response) ==
  LET missing == Missing(question, response)
      word_count == count_words(response)
  IN  IF response_is_complete(question, response) THEN NoWarning
      ELSE IF question.type = "multiple_choice"
        THEN Message("Selecciona una alternativa antes de continuar.", <<>>, 0, 0)
      ELSE IF question.type \in {"cloze_mc", "cloze_open"}
        THEN IF missing # <<>>
               THEN Message("Completa todos los huecos (pendientes)", missing, 0, 0)
               ELSE Message("Completa todos los huecos antes de enviar.", <<>>, 0, 0)
      ELSE IF question.type = "word_formation"
        THEN Message("Responde todas las transformaciones (pendientes)", missing, 0, 0)
      ELSE IF question.type = "key_transform"
        THEN Message("Completa todas las reescrituras (pendientes)", missing, 0, 0)
      ELSE IF question.type = WRITING_TYPE
        THEN IF word_count < question.min_words
               THEN Message("Tu respuesta debe tener al menos", <<>>,
                            question.min_words, word_count)
             ELSE IF word_count > question.max_words
               THEN Message("Reduce tu respuesta a maximo", <<>>,
                            question.max_words, word_count)
             ELSE Message("Completa la redaccion dentro del rango indicado.", <<>>, 0, 0)
      ELSE Message("Completa la respuesta antes de continuar.", <<>>, 0, 0)

\* evaluate_writing_with_ai: None without the textstat library or on a blank
\* text, else a rubric; `passing` is the rubric's verdict (overall >= 3.0),
\* computed by textstat's readability measures.
NoRubric == [available |-> FALSE, passing |-> FALSE]

evaluate_writing_with_ai(text, textstat, passing) ==
  IF ~textstat THEN NoRubric
  ELSE IF normalize_free_text(text) = <<>> THEN NoRubric
  ELSE [available |-> TRUE, passing |-> passing]

\* One entry of the breakdown: the number of the sub-element its label names
\* (0 for an entry that is not about a sub-element) and its verdict; the texts
\* shown with it ("expected", "response") are left out.
Entry(number, correct) == [number |-> number, correct |-> correct]

\* The breakdown score_question builds: one entry per sub-element of a
\* composite item, one for a multiple_choice item; for a writing item the word
\* count and, without a rubric, the "Pendiente" entry (the rubric's own entries
\* are left out).
Breakdown(question, response, pending) ==
  IF question.type = "multiple_choice"
    THEN <<Entry(0, response = question.answer)>>
  ELSE IF question.type = WRITING_TYPE
    THEN LET text == IF response = NoText THEN <<>> ELSE response
             words == Entry(0, /\ question.min_words <= count_words(text)
                               /\ count_words(text) <= question.max_words)
         IN  IF pending THEN <<words, Entry(0, TRUE)>> ELSE <<words>>
  ELSE [i \in 1..Len(SubItems(question)) |->
          LET item == SubItems(question)[i]
              user_value == ResponseGet(response, item.number)
              correct ==
                IF question.type = "cloze_mc" THEN user_value = item.answer
                ELSE IF question.type = "key_transform"
                  THEN normalize_for_comparison(user_value) \in
                         {normalize_for_comparison(candidate) :
                            candidate \in {item.answer} \cup item.alternatives}
                ELSE normalize_for_comparison(user_value)
                       = normalize_for_comparison(item.answer)
          IN  Entry(item.number, correct)]

\* all(entry["correct"] for entry in breakdown) with one entry enough.
AllCorrect_any(breakdown) ==
  \E i \in 1..Len(breakdown) : breakdown[i].correct

\* all(entry["correct"] for entry in breakdown)
AllCorrect(breakdown) ==
  \A i \in 1..Len(breakdown) : breakdown[i].correct

Score(is_correct, pending, ai_result, breakdown) ==
  [is_correct |-> is_correct, pending_manual_review |-> pending,
   ai_evaluation |-> ai_result, breakdown |-> breakdown]

\* score_question for a writing item returning the rubric's verdict.
score_question_rubric_verdict(question, response, textstat, passing) ==
  LET ai_result == evaluate_writing_with_ai(IF response = NoText THEN <<>> ELSE response,
                                            textstat, passing)
      breakdown == Breakdown(question, response, ~ai_result.available)
  IN  IF question.type = "multiple_choice"
        THEN Score(response = question.answer, FALSE, NoRubric, breakdown)
      ELSE IF question.type = WRITING_TYPE
        THEN IF ai_result.available THEN Score(ai_result.passing, FALSE, ai_result, breakdown)
             ELSE Score(TRUE, TRUE, NoRubric, breakdown)
      ELSE IF question.type \in {"cloze_mc", "cloze_open", "word_formation", "key_transform"}
        THEN Score(AllCorrect(breakdown), FALSE, NoRubric, breakdown)
      ELSE Score(FALSE, FALSE, NoRubric, breakdown)

\* score_question; textstat and passing are what evaluate_writing_with_ai finds.
\* A question of no supported type scores False with an empty breakdown.
score_question(question, response, textstat, passing) ==
  LET ai_result == evaluate_writing_with_ai(IF response = NoText THEN <<>> ELSE response,
                                            textstat, passing)
      breakdown == Breakdown(question, response, ~ai_result.available)
  IN  IF question.type = "multiple_choice"
        THEN Score(response = question.answer, FALSE, NoRubric, breakdown)
      ELSE IF question.type = WRITING_TYPE
        THEN IF ai_result.available THEN Score(TRUE, FALSE, ai_result, breakdown)
             ELSE Score(TRUE, TRUE, NoRubric, breakdown)
      ELSE IF question.type \in {"cloze_mc", "cloze_open", "word_formation", "key_transform"}
        THEN Score(AllCorrect(breakdown), FALSE, NoRubric, breakdown)
      ELSE Score(FALSE, FALSE, NoRubric, breakdown)

\* The options of a radio group.
Choices == <<<<"w">>, <<"W">>>>

\* The characters typed into a text_input and into a text_area.
AnswerChars == {"w", "W", " "}
TextChars == {"w", " "}

\* A question record with the fields the form reads.
Question(id, level, skill, type) ==
  [id |-> id, level |-> level, skill |-> skill, type |-> type,
   options |-> <<>>, answer |-> NoText,
   cloze_items |-> <<>>, word_formation_items |-> <<>>, transform_items |-> <<>>,
   min_words |-> 0, max_words |-> 0, group_id |-> None]

NoQuestion == Question(None, None, None, None)

\* questions_by_level[level]: one item of each supported type, as load_item_bank
\* returns them.
FormBank(level) ==
  { [Question("MC", level, "grammar", "multiple_choice")
       EXCEPT !.options = Choices, !.answer = <<"w">>],
    [Question("CM", level, "reading", "cloze_mc")
       EXCEPT !.cloze_items =
         <<[number |-> 1, options |-> Choices, answer |-> <<"w">>],
           [number |-> 2, options |-> Choices, answer |-> <<"W">>]>>],
    [Question("CO", level, "use_of_english", "cloze_open")
       EXCEPT !.cloze_items =
         <<[number |-> 1, answer |-> <<"w">>], [number |-> 2, answer |-> <<"W", "w">>]>>],
    [Question("WF", level, "vocab", "word_formation")
       EXCEPT !.word_formation_items = <<[number |-> 1, answer |-> <<"w">>]>>],
    [Question("KT", level, "use_of_english", "key_transform")
       EXCEPT !.transform_items =
         <<[number |-> 1, answer |-> <<"w", "w">>, alternatives |-> {<<"W">>}]>>],
    [Question("WR", level, "writing", WRITING_TYPE)
       EXCEPT !.min_words = 2, !.max_words = 3] }

\* A text widget after one more key: a character typed or the last one erased.
Typed(value, chars, n) ==
  {Append(value, c) : c \in IF Len(value) < n THEN chars ELSE {}}
    \cup (IF value = <<>> THEN {} ELSE {SubSeq(value, 1, Len(value) - 1)})

\* What render_question_inputs returns after the user touches one widget of the
\* question.
Edits(question, response) ==
  IF question.type = "multiple_choice"
    THEN ({NoText} \cup {question.options[i] : i \in 1..Len(question.options)}) \ {response}
  ELSE IF question.type = "cloze_mc"
    THEN {[response EXCEPT ![i] = v] :
            i \in 1..Len(question.cloze_items), v \in {NoText, Choices[1], Choices[2]}}
           \ {response}
  ELSE IF question.type = WRITING_TYPE THEN Typed(response, TextChars, MaxText)
  ELSE UNION {{[response EXCEPT ![i] = v] : v \in Typed(response[i], AnswerChars, MaxAnswerLen)} :
                i \in 1..Len(SubItems(question))}

\* The widgets of a question shown for the first time.
EmptyResponse(question) ==
  IF question.type = "multiple_choice" THEN NoText
  ELSE IF question.type = "cloze_mc" THEN [i \in 1..Len(question.cloze_items) |-> NoText]
  ELSE IF question.type = WRITING_TYPE THEN <<>>
  ELSE [i \in 1..Len(SubItems(question)) |-> <<>>]

\* last_adaptive_feedback: the score shown after a recorded answer.
NoFeedback == [type |-> None, score |-> Score(FALSE, FALSE, NoRubric, <<>>)]

\* form: current_question, the value of its widgets, the warning on screen,
\* block["used_ids"] and last_adaptive_feedback.
NoForm ==
  [question |-> NoQuestion, response |-> <<>>, warning |-> NoWarning,
   used_ids |-> {}, feedback |-> NoFeedback]

\* render_adaptive_mode drawing the next question: an item of the level not
\* used in the block, the used ids being cleared once every item has been
\* used.  Which unused item comes up depends on the skills the catalog holds
\* (pick_question_for_block below, run in SpecDraw); over the catalogs of a
\* level it can be any of them, and the order of the options plays no part in
\* the form.
FormPick ==
  /\ program = "english_test_app"
  /\ ~ss.finished
  /\ form.question = NoQuestion
  /\ ss.history.len < FormMaxItems
  /\ LET level == ss.block.level
         pool == {q \in FormBank(level) : q.id \notin form.used_ids}
     IN  \E chosen \in (IF pool # {} THEN pool ELSE FormBank(level)) :
           form' = [form EXCEPT
                      !.question = chosen,
                      !.response = EmptyResponse(chosen),
                      !.warning = NoWarning,
                      !.used_ids = (IF pool # {} THEN @ ELSE {}) \cup {chosen.id}]
  /\ UNCHANGED <<program, bank, ss, loop, adaptive, bank_file, loaded, draw, blocks, started>>

\* The user changes the widgets of the question; the page is drawn again.
FormEdit ==
  /\ program = "english_test_app"
  /\ form.question # NoQuestion
  /\ \E response \in Edits(form.question, form.response) :
       form' = [form EXCEPT !.response = response, !.warning = NoWarning]
  /\ UNCHANGED <<program, bank, ss, loop, adaptive, bank_file, loaded, draw, blocks, started>>

\* "Responder" / "Submit answer": a warning, or the answer is recorded, its
\* widgets are cleared and current_question is dropped.
FormSubmit ==
  /\ program = "english_test_app"
  /\ form.question # NoQuestion
  /\ \E textstat \in BOOLEAN, passing \in BOOLEAN :
       LET question == form.question
           warning_text == validate_response(question, form.response)
           score == score_question(question, form.response, textstat, passing)
           s1 == process_adaptive_answer(ss, question, score.is_correct)
       IN  IF warning_text # NoWarning
             THEN /\ form' = [form EXCEPT !.warning = warning_text]
                  /\ ss' = ss
             ELSE /\ ss' = s1
                  /\ form' = [question |-> NoQuestion,
                              response |-> <<>>,
                              warning |-> NoWarning,
                              used_ids |-> IF s1.block.presented = 0 THEN {}
                                           ELSE form.used_ids,
                              feedback |-> [type |-> question.type, score |-> score]]
  /\ UNCHANGED <<program, bank, loop, adaptive, bank_file, loaded, draw, blocks, started>>

\* ======================================================================
\* english_test_app.py : drawing questions from the catalog
\* ======================================================================
BASE_SKILL_SEQUENCE == <<"grammar", "vocab", "reading", "use_of_english">>
WRITING_LEVELS == {"B2", "C1", "C2"}

skill_rotation_for_level(level) ==
  IF level \in WRITING_LEVELS
       /\ "writing" \notin {BASE_SKILL_SEQUENCE[i] : i \in 1..Len(BASE_SKILL_SEQUENCE)}
    THEN Append(BASE_SKILL_SEQUENCE, "writing")
    ELSE BASE_SKILL_SEQUENCE

\* random.shuffle(options): every order of the list can come out.
Shuffles(options) ==
  LET n == Len(options)
  IN  {[i \in 1..n |-> options[f[i]]] :
         f \in {g \in [1..n -> 1..n] : \A i, j \in 1..n : g[i] = g[j] => i = j}}

\* The shuffles done on the catalog entry itself (no deepcopy).
Detached_alias(question, instance) == instance

\* The catalog entry after prepare_question_instance has shuffled `instance`:
\* deepcopy made the instance a separate object, the entry is as it was.
Detached(question, instance) == question

\* The instances prepare_question_instance can return for a question.
prepare_question_instance(question) ==
  IF question.type = "multiple_choice"
    THEN {[question EXCEPT !.options = options] : options \in Shuffles(question.options)}
  ELSE IF question.type = "cloze_mc"
    THEN LET items == question.cloze_items
             gaps(i) == {[items[i] EXCEPT !.options = options] :
                           options \in Shuffles(items[i].options)}
         IN  {[question EXCEPT !.cloze_items = cloze_items] :
                cloze_items \in {c \in [1..Len(items) -> UNION {gaps(i) : i \in 1..Len(items)}] :
                                   \A i \in 1..Len(items) : c[i] \in gaps(i)}}
  ELSE {question}

\* new_block(level) with every field of the block: the counters and the fields
\* the two drawing functions use.
DrawBlock(level) ==
  [level |-> level, presented |-> 0, correct |-> 0, wrong |-> 0,
   used_ids |-> {}, used_group_ids |-> {},
   skill_sequence |-> skill_rotation_for_level(level)]

\* What a call leaves behind: the returned instances (none for None), the block
\* and the catalog.
Outcome(returned, block, questions_by_level) ==
  [returned |-> returned, block |-> block, questions_by_level |-> questions_by_level]

\* pick_question_for_block keeping used_ids when the pool is exhausted.
pick_question_for_block_no_reset(level, questions_by_level, block) ==
  LET items == questions_by_level[level]
      sequence == IF block.skill_sequence # <<>> THEN block.skill_sequence
                  ELSE skill_rotation_for_level(level)
      desired_skill == sequence[(block.presented % Len(sequence)) + 1]
      pool == {i \in 1..Len(items) : items[i].id \notin block.used_ids}
      preferred == {i \in pool : items[i].skill = desired_skill}
      candidates == IF preferred # {} THEN preferred
                    ELSE IF pool # {} THEN pool
                    ELSE 1..Len(items)
  IN  UNION {{Outcome(<<instance>>,
                      [block EXCEPT !.skill_sequence = sequence,
                                    !.used_ids = @ \cup {items[i].id}],
                      [questions_by_level EXCEPT
                         ![level][i] = Detached(items[i], instance)]) :
                instance \in prepare_question_instance(items[i])} :
             i \in candidates}

\* The outcomes of pick_question_for_block on a non-empty level.
pick_question_for_block(level, questions_by_level, block) ==
  LET items == questions_by_level[level]
      sequence == IF block.skill_sequence # <<>> THEN block.skill_sequence
                  ELSE skill_rotation_for_level(level)
      desired_skill == sequence[(block.presented % Len(sequence)) + 1]
      pool == {i \in 1..Len(items) : items[i].id \notin block.used_ids}
      preferred == {i \in pool : items[i].skill = desired_skill}
      candidates == IF preferred # {} THEN preferred
                    ELSE IF pool # {} THEN pool
                    ELSE 1..Len(items)
  IN  UNION {{Outcome(<<instance>>,
                      [block EXCEPT !.skill_sequence = sequence,
                                    !.used_ids = (IF pool = {} THEN {} ELSE @)
                                                   \cup {items[i].id}],
                      [questions_by_level EXCEPT
                         ![level][i] = Detached(items[i], instance)]) :
                instance \in prepare_question_instance(items[i])} :
             i \in candidates}

\* build_groups_for_level: the group ids in the order they first appear, each
\* with the places of its questions in `items`; an item without group_id or
\* with an empty one (`not group_id`) is in no group.
build_groups_for_level(items) ==
  LET grouped(i) == items[i].group_id \notin {None, ""}
      first == {i \in 1..Len(items) :
                  /\ grouped(i)
                  /\ \A j \in 1..(i - 1) : items[j].group_id # items[i].group_id}
      place(k) == CHOOSE i \in first : Cardinality({j \in first : j < i}) = k - 1
  IN  [k \in 1..Cardinality(first) |->
         [group_id |-> items[place(k)].group_id,
          questions |-> {i \in 1..Len(items) : items[i].group_id = items[place(k)].group_id}]]

\* The places of a set of places, in increasing order.
Ordered(places) ==
  [k \in 1..Cardinality(places) |->
     CHOOSE i \in places : Cardinality({j \in places : j < i}) = k - 1]

\* The outcomes of start_group_for_block; no instance is returned (None) when
\* the level has no group.
start_group_for_block(level, questions_by_level, block) ==
  LET items == questions_by_level[level]
      groups == build_groups_for_level(items)
      available == {k \in 1..Len(groups) : groups[k].group_id \notin block.used_group_ids}
      candidates == IF available # {} THEN available ELSE 1..Len(groups)
      instances(chosen) ==
        {f \in [chosen.questions ->
                  UNION {prepare_question_instance(items[i]) : i \in chosen.questions}] :
           \A i \in chosen.questions : f[i] \in prepare_question_instance(items[i])}
  IN  IF Len(groups) = 0 THEN {Outcome(<<>>, block, questions_by_level)}
      ELSE UNION {{Outcome([n \in 1..Cardinality(groups[k].questions) |->
                              randomized[Ordered(groups[k].questions)[n]]],
                           [block EXCEPT
                              !.used_group_ids = @ \cup {groups[k].group_id},
                              !.used_ids = @ \cup {items[i].id : i \in groups[k].questions}],
                           [questions_by_level EXCEPT
                              ![level] = [i \in 1..Len(items) |->
                                            IF i \in groups[k].questions
                                              THEN Detached(items[i], randomized[i])
                                              ELSE items[i]]]) :
                     randomized \in instances(groups[k])} :
                  k \in candidates}

\* The items a level of the catalog is drawn from: single items of four
\* skills, three items of two reading groups, and an item whose group_id is the
\* empty string.
Options3 == <<<<"w">>, <<"W">>, <<"w", "w">>>>

CatalogItems(level) ==
  << [Question("MC", level, "grammar", "multiple_choice")
        EXCEPT !.options = Options3, !.answer = <<"w">>],
     [Question("WF", level, "vocab", "word_formation")
        EXCEPT !.word_formation_items = <<[number |-> 1, answer |-> <<"w">>]>>],
     [Question("CM", level, "reading", "cloze_mc")
        EXCEPT !.cloze_items =
          <<[number |-> 1, options |-> Choices, answer |-> <<"w">>],
            [number |-> 2, options |-> Choices, answer |-> <<"W">>]>>],
     [Question("WR", level, "writing", WRITING_TYPE)
        EXCEPT !.min_words = 2, !.max_words = 3],
     [Question("G1", level, "reading", "multiple_choice")
        EXCEPT !.options = Choices, !.answer = <<"W">>, !.group_id = "g1"],
     [Question("G2", level, "use_of_english", "multiple_choice")
        EXCEPT !.options = Options3, !.answer = <<"W">>, !.group_id = "g1"],
     [Question("G3", level, "reading", "multiple_choice")
        EXCEPT !.options = Choices, !.answer = <<"w">>, !.group_id = "g2"],
     [Question("G0", level, "grammar", "multiple_choice")
        EXCEPT !.options = Choices, !.answer = <<"w">>, !.group_id = ""] >>

\* draw: the level and the block the drawing functions are called for, the
\* catalog, the instances of the last call still to be answered, and the last
\* call.
NoDraw ==
  [level |-> None,
   questions_by_level |-> [l \in LevelSet |-> <<>>],
   block |-> [level |-> None, presented |-> 0, correct |-> 0, wrong |-> 0,
              used_ids |-> {}, used_group_ids |-> {}, skill_sequence |-> <<>>],
   returned |-> <<>>,
   call |-> None]

\* render_adaptive_mode serves the level through render_advanced_group_flow.
ServedByGroups ==
  /\ is_advanced_level(draw.level)
  /\ Len(build_groups_for_level(draw.questions_by_level[draw.level])) > 0

Drawn(out, call) ==
  [draw EXCEPT !.returned = out.returned,
               !.block = out.block,
               !.questions_by_level = out.questions_by_level,
               !.call = call]

\* render_adaptive_mode with no current question: pick_question_for_block.
CallPick ==
  /\ draw.level # None
  /\ ~ss.finished
  /\ draw.returned = <<>>
  /\ ~ServedByGroups
  /\ \E out \in pick_question_for_block(draw.level, draw.questions_by_level, draw.block) :
       draw' = Drawn(out, "pick")
  /\ UNCHANGED <<program, bank, ss, loop, adaptive, form, bank_file, loaded, blocks, started>>

\* render_advanced_group_flow with no current group: start_group_for_block,
\* which stores the group it returns in st.session_state.current_group_state.
CallStartGroup ==
  /\ draw.level # None
  /\ ~ss.finished
  /\ draw.returned = <<>>
  /\ ServedByGroups
  /\ ss.current_group_state = NoGroup
  /\ \E out \in start_group_for_block(draw.level, draw.questions_by_level, draw.block) :
       /\ draw' = Drawn(out, "start_group")
       /\ ss' = [ss EXCEPT !.current_group_state =
                            [level |-> draw.level, size |-> Len(out.returned)]]
  /\ UNCHANGED <<program, bank, loop, adaptive, form, bank_file, loaded, blocks, started>>

\* The session ensure_adaptive_state starts, taken to the first question of
\* `level` by blocks of right answers.
RECURSIVE SessionAt(_, _)
SessionAt(s, level) ==
  IF s.block.level = level THEN s
  ELSE SessionAt(process_adaptive_answer(s, [level |-> s.block.level], TRUE), level)

\* The answers of the session before the first question of `level`.
Climbed(level) == SessionAt(reset_adaptive_state, level).history.len

\* The levels a session of single answers opens a block at: the blocks below
\* C2 take 52 answers, more than MAX_QUESTIONS.
DrawLevels == LevelSet \ {"C2"}

\* ======================================================================
\* english_test_bank.py : load_item_bank
\* ======================================================================
\* A JSON value carries its Python type: t is "str", "int", "list", "dict" or
\* "null"; s is the string of a str, n the number of an int, v the sequence of
\* JSON values of a list, d the function from keys to JSON values of a dict.
NoFields == [key \in {} |-> 0]
Json(t, s, n, v, d) == [t |-> t, s |-> s, n |-> n, v |-> v, d |-> d]
Str(s) == Json("str", s, 0, <<>>, NoFields)
Num(n) == Json("int", "", n, <<>>, NoFields)
List(values) == Json("list", "", 0, values, NoFields)
Obj(fields) == Json("dict", "", 0, <<>>, fields)
Null == Json("null", "", 0, <<>>, NoFields)

\* a == b on JSON values.
JsonEq(a, b) == a = b

\* entry.get(key)
Get(entry, key) == IF key \in DOMAIN entry.d THEN entry.d[key] ELSE Null

\* The characters str.strip() removes, of those a string of the module can
\* hold: space, the escapes \t \n \r \f, and, written as the characters
\* themselves, U+000B, U+001C, U+001D, U+001E, U+001F, U+0085, U+00A0 and
\* U+1680.  (U+2000..U+200A, U+2028, U+2029, U+202F, U+205F and U+3000 are
\* removed as well; no string of the module holds them.)
Whitespace ==
  {" ", "\t", "\n", "\r", "\f",
   "", "", "", "", "", "", " ", " "}

\* not value.strip(): every character of the string is whitespace.
IsBlank(value) == \A i \in 1..Len(value.s) : SubSeq(value.s, i, i) \in Whitespace

\* hash(value) raises TypeError: the value is a list or a dict.
Unhashable(value) == value.t \in {"list", "dict"}

ALLOWED_SKILLS == {"grammar", "vocab", "reading", "use_of_english", "writing"}
BASE_REQUIRED_KEYS == {"id", "level", "skill", "type", "prompt"}
OPTION_BASED_TYPES == {"multiple_choice"}
TEXT_RESPONSE_TYPES == {"cloze_open", "word_formation", "key_transform"}
CLOZE_CHOICE_TYPE == "cloze_mc"
SUPPORTED_TYPES == OPTION_BASED_TYPES \cup TEXT_RESPONSE_TYPES \cup {WRITING_TYPE, CLOZE_CHOICE_TYPE}

\* The validators return the message of the ValueError they raise, or None.
_validate_options(options) ==
  IF options.t # "list" THEN "options must be provided as a list"
  ELSE IF Len(options.v) < 2 THEN "must include at least two options"
  ELSE IF \E i \in 1..Len(options.v) : options.v[i].t # "str"
    THEN "All options must be strings"
  ELSE None

_validate_string_answer(answer) ==
  IF answer.t # "str" THEN "answer must be a string"
  ELSE IF IsBlank(answer) THEN "answer cannot be empty"
  ELSE None

\* The membership test left out.
InOptions_unchecked(answer, options) == TRUE

\* answer in options
InOptions(answer, options) ==
  \E i \in 1..Len(options.v) : JsonEq(options.v[i], answer)

\* One gap of _validate_cloze_items, seen_numbers being the numbers met so far.
ClozeGapError(gap, seen_numbers, require_options) ==
  IF gap.t # "dict" THEN "cloze entries must be objects"
  ELSE LET number == Get(gap, "number")
           answer == Get(gap, "answer")
           options == Get(gap, "options")
       IN  IF number.t # "int" THEN "cloze entries require an integer 'number'"
           ELSE IF number.n \in seen_numbers THEN "repeats cloze number"
           ELSE IF _validate_string_answer(answer) # None
             THEN _validate_string_answer(answer)
           ELSE IF require_options
             THEN IF _validate_options(options) # None THEN _validate_options(options)
                  ELSE IF ~InOptions(answer, options) THEN "answer missing from options"
                  ELSE None
           ELSE IF options.t # "null" THEN _validate_options(options)
           ELSE None

RECURSIVE ClozeGapsError(_, _, _, _)
ClozeGapsError(gaps, i, seen_numbers, require_options) ==
  IF i > Len(gaps) THEN None
  ELSE IF ClozeGapError(gaps[i], seen_numbers, require_options) # None
    THEN ClozeGapError(gaps[i], seen_numbers, require_options)
  ELSE ClozeGapsError(gaps, i + 1, seen_numbers \cup {Get(gaps[i], "number").n},
                      require_options)

_validate_cloze_items(items, require_options) ==
  IF items.t # "list" \/ items.v = <<>> THEN "must define a non-empty 'cloze_items' list"
  ELSE ClozeGapsError(items.v, 1, {}, require_options)

\* One entry of _validate_word_formation_items.
WordFormationEntryError(entry) ==
  IF entry.t # "dict" THEN "word formation entries must be objects"
  ELSE IF Get(entry, "number").t # "int"
    THEN "word formation entries require an integer 'number'"
  ELSE IF Get(entry, "sentence").t # "str" \/ Get(entry, "base").t # "str"
    THEN "word formation entries need 'sentence' and 'base' strings"
  ELSE _validate_string_answer(Get(entry, "answer"))

\* One entry of _validate_transform_items.
TransformEntryError(entry) ==
  IF entry.t # "dict" THEN "transformations must be objects"
  ELSE IF Get(entry, "number").t # "int"
    THEN "transformations require an integer 'number'"
  ELSE IF Get(entry, "original").t # "str" \/ Get(entry, "keyword").t # "str"
    THEN "transformations need 'original' and 'keyword' strings"
  ELSE _validate_string_answer(Get(entry, "answer"))

\* The first error of the list, the entries being checked in order (the for loop).
FirstError(errors) ==
  IF \A i \in 1..Len(errors) : errors[i] = None THEN None
  ELSE errors[CHOOSE i \in 1..Len(errors) :
                /\ errors[i] # None
                /\ \A j \in 1..(i - 1) : errors[j] = None]

_validate_word_formation_items(items) ==
  IF items.t # "list" \/ items.v = <<>> THEN "must define 'word_formation_items'"
  ELSE FirstError([i \in 1..Len(items.v) |-> WordFormationEntryError(items.v[i])])

_validate_transform_items(items) ==
  IF items.t # "list" \/ items.v = <<>> THEN "must define 'transform_items'"
  ELSE FirstError([i \in 1..Len(items.v) |-> TransformEntryError(items.v[i])])

_ensure_absent(entry, disallowed_keys) ==
  IF \E key \in disallowed_keys : key \in DOMAIN entry.d THEN "must not define" ELSE None

\* The checks of _validate_writing_fields.
WritingFieldsError(entry) ==
  LET task_type == Get(entry, "task_type")
      min_words == Get(entry, "min_words")
      max_words == Get(entry, "max_words")
      rubric == Get(entry, "rubric")
  IN  IF task_type.t # "str" \/ IsBlank(task_type)
        THEN "must provide a non-empty 'task_type'"
      ELSE IF min_words.t # "int" \/ min_words.n <= 0
        THEN "must define a positive integer 'min_words'"
      ELSE IF max_words.t # "int" \/ max_words.n < min_words.n
        THEN "must define a 'max_words' integer >= min_words"
      ELSE IF rubric.t # "list" \/ rubric.v = <<>>
        THEN "must include a non-empty rubric list"
      ELSE IF \E i \in 1..Len(rubric.v) : rubric.v[i].t # "str" \/ IsBlank(rubric.v[i])
        THEN "rubric entry must be a non-empty string"
      ELSE None

\* The dict _validate_writing_fields returns.
_validate_writing_fields(entry) ==
  [key \in {"task_type", "min_words", "max_words", "rubric"} |-> Get(entry, key)]

\* The type-specific checks of an entry (english_test_bank.py 98-124).
TypeSpecificError(entry, item_type) ==
  LET options == Get(entry, "options")
      answer == Get(entry, "answer")
  IN  IF item_type \in OPTION_BASED_TYPES
        THEN IF "options" \notin DOMAIN entry.d THEN "must include an 'options' list"
             ELSE IF _validate_options(options) # None THEN _validate_options(options)
             ELSE IF "answer" \notin DOMAIN entry.d THEN "must include an 'answer'"
             ELSE IF _validate_string_answer(answer) # None
               THEN _validate_string_answer(answer)
             ELSE IF ~InOptions(answer, options) THEN "answer is not present in options"
             ELSE None
      ELSE IF item_type = CLOZE_CHOICE_TYPE
        THEN _validate_cloze_items(Get(entry, "cloze_items"), TRUE)
      ELSE IF item_type = "cloze_open"
        THEN _validate_cloze_items(Get(entry, "cloze_items"), FALSE)
      ELSE IF item_type = "word_formation"
        THEN _validate_word_formation_items(Get(entry, "word_formation_items"))
      ELSE IF item_type = "key_transform"
        THEN _validate_transform_items(Get(entry, "transform_items"))
      ELSE IF item_type = WRITING_TYPE
        THEN IF _ensure_absent(entry, {"options", "answer"}) # None
               THEN _ensure_absent(entry, {"options", "answer"})
             ELSE WritingFieldsError(entry)
      ELSE None

\* The checks of the optional fields (english_test_bank.py 126-160).
OptionalFieldsError(entry) ==
  LET explanation == Get(entry, "explanation")
      estimated_time == Get(entry, "estimatedTime")
  IN  IF explanation.t # "null" /\ explanation.t # "str"
        THEN "explanation must be a string if provided"
      ELSE IF \E key \in {"part", "group_id", "passage"} :
                Get(entry, key).t \notin {"null", "str"}
        THEN "field must be a string if provided"
      ELSE IF estimated_time.t # "null"
                /\ (estimated_time.t # "int" \/ estimated_time.n <= 0)
        THEN "field 'estimatedTime' must be a positive number when provided"
      ELSE None

\* The rule without its first half: any type goes with skill writing.
WritingRuleError_any_type(skill, item_type, task_type) ==
  IF item_type = WRITING_TYPE /\ skill # "writing" /\ ~JsonEq(task_type, Str("short_answer"))
    THEN "Open text items must either declare skill 'writing' or use task_type 'short_answer'"
  ELSE None

\* The rule tying skill "writing" and type open_text (english_test_bank.py 82-89).
WritingRuleError(skill, item_type, task_type) ==
  IF skill = "writing" /\ item_type # WRITING_TYPE
    THEN "Writing item must use type 'open_text'"
  ELSE IF item_type = WRITING_TYPE /\ skill # "writing"
            /\ ~JsonEq(task_type, Str("short_answer"))
    THEN "Open text items must either declare skill 'writing' or use task_type 'short_answer'"
  ELSE None

\* The message of the error one entry of a level raises, or None (the body of
\* the inner for loop up to the construction of `cleaned`); seen_ids are the
\* ids met so far.  The membership tests on sets (`item_id in seen_ids`,
\* `skill not in ALLOWED_SKILLS`, `item_type not in SUPPORTED_TYPES`) hash
\* their left operand and raise TypeError on a list or a dict.
EntryError(level, entry, seen_ids) ==
  IF entry.t # "dict" THEN "must be a JSON object"
  ELSE IF BASE_REQUIRED_KEYS \ DOMAIN entry.d # {} THEN "is missing required keys"
  ELSE LET item_id == entry.d["id"]
           skill == entry.d["skill"]
           item_type == entry.d["type"]
           prompt == entry.d["prompt"]
       IN  IF Unhashable(item_id) THEN "unhashable type"
           ELSE IF item_id \in seen_ids THEN "Duplicate item id detected"
           ELSE IF ~JsonEq(entry.d["level"], Str(level)) THEN "level mismatch"
           ELSE IF Unhashable(skill) THEN "unhashable type"
           ELSE IF skill.t # "str" \/ skill.s \notin ALLOWED_SKILLS
             THEN "has unsupported skill"
           ELSE IF Unhashable(item_type) THEN "unhashable type"
           ELSE IF item_type.t # "str" \/ item_type.s \notin SUPPORTED_TYPES
             THEN "has unsupported type"
           ELSE IF WritingRuleError(skill.s, item_type.s, Get(entry, "task_type")) # None
             THEN WritingRuleError(skill.s, item_type.s, Get(entry, "task_type"))
           ELSE IF prompt.t # "str" THEN "prompt must be a string"
           ELSE IF TypeSpecificError(entry, item_type.s) # None
             THEN TypeSpecificError(entry, item_type.s)
           ELSE OptionalFieldsError(entry)

\* bool(value) of a JSON value.
Truthy(value) ==
  /\ value.t # "null"
  /\ value.t = "str" => value.s # ""
  /\ value.t = "int" => value.n # 0
  /\ value.t = "list" => value.v # <<>>
  /\ value.t = "dict" => DOMAIN value.d # {}

\* The keys of `cleaned` (english_test_bank.py 130-172).
CleanedKeys(entry) ==
  LET item_type == entry.d["type"].s
  IN  {"id", "level", "skill", "type", "prompt"}
        \cup {key \in {"options", "answer", "explanation", "part", "group_id", "passage"} :
                Get(entry, key).t # "null"}
        \cup (IF Get(entry, "estimatedTime").t # "null" THEN {"estimated_time"} ELSE {})
        \cup (IF item_type = WRITING_TYPE
                THEN {"task_type", "min_words", "max_words", "rubric"}
              ELSE IF item_type \in {CLOZE_CHOICE_TYPE, "cloze_open"}
                THEN {"cloze_items"}
                       \cup (IF Truthy(Get(entry, "cloze_text")) THEN {"cloze_text"} ELSE {})
              ELSE IF item_type = "word_formation" THEN {"word_formation_items"}
              ELSE IF item_type = "key_transform" THEN {"transform_items"}
              ELSE {})

\* `cleaned` keeping every key of the entry.
Cleaned_copy_of_entry(level, entry) ==
  Obj([key \in CleanedKeys(entry) \cup DOMAIN entry.d |->
         IF key = "level" THEN Str(level)
         ELSE IF key = "estimated_time" THEN Get(entry, "estimatedTime")
         ELSE Get(entry, key)])

\* `cleaned`: the record load_item_bank builds for a validated entry.
Cleaned(level, entry) ==
  Obj([key \in CleanedKeys(entry) |->
         IF key = "level" THEN Str(level)
         ELSE IF key = "estimated_time" THEN Get(entry, "estimatedTime")
         ELSE IF key \in {"task_type", "min_words", "max_words", "rubric"}
           THEN _validate_writing_fields(entry)[key]
         ELSE Get(entry, key)])

\* The outcome of a call: the catalog returned (levels is the order of its
\* keys), or the exception raised.
Returned(levels, catalog) ==
  [returned |-> TRUE, levels |-> levels, catalog |-> catalog, raised |-> None,
   message |-> None]

Raised(exception, message) ==
  [returned |-> FALSE, levels |-> <<>>, catalog |-> <<>>, raised |-> exception,
   message |-> message]

\* The class of the exception an entry raises with the message.
ExceptionOf(message) ==
  IF message = "unhashable type" THEN "TypeError" ELSE "ValueError"

RECURSIVE LoadEntries(_, _, _, _, _)
\* The inner for loop from entry `index` on: validated_items, or the error.
LoadEntries(level, items, index, seen_ids, validated_items) ==
  IF index > Len(items)
    THEN [error |-> None, seen_ids |-> seen_ids, validated_items |-> validated_items]
  ELSE IF EntryError(level, items[index], seen_ids) # None
    THEN [error |-> EntryError(level, items[index], seen_ids),
          seen_ids |-> seen_ids, validated_items |-> validated_items]
  ELSE LoadEntries(level, items, index + 1, seen_ids \cup {items[index].d["id"]},
                   Append(validated_items, Cleaned(level, items[index])))

\* raw_data.items(): the keys of the root object in document order, whatever
\* they are.
LevelKeys(path) == path.keys

RECURSIVE LoadLevels(_, _, _, _)
\* The loop with seen_ids emptied at each level.
LoadLevels_seen_ids_per_level(path, k, seen_ids, normalized) ==
  IF k > Len(LevelKeys(path)) THEN Returned(LevelKeys(path), normalized)
  ELSE LET level == LevelKeys(path)[k]
           items == path.raw_data.d[level]
           done == LoadEntries(level, items.v, 1, {}, <<>>)
       IN  IF items.t # "list" THEN Raised("ValueError", "Expected a list of items")
           ELSE IF done.error # None THEN Raised(ExceptionOf(done.error), done.error)
           ELSE LoadLevels(path, k + 1, done.seen_ids,
                           [l \in DOMAIN normalized \cup {level} |->
                              IF l = level THEN done.validated_items ELSE normalized[l]])

\* The outer for loop from the k-th key on; seen_ids is shared by the levels.
LoadLevels(path, k, seen_ids, normalized) ==
  IF k > Len(LevelKeys(path)) THEN Returned(LevelKeys(path), normalized)
  ELSE LET level == LevelKeys(path)[k]
           items == path.raw_data.d[level]
           done == LoadEntries(level, items.v, 1, seen_ids, <<>>)
       IN  IF items.t # "list" THEN Raised("ValueError", "Expected a list of items")
           ELSE IF done.error # None THEN Raised(ExceptionOf(done.error), done.error)
           ELSE LoadLevels(path, k + 1, done.seen_ids,
                           [l \in DOMAIN normalized \cup {level} |->
                              IF l = level THEN done.validated_items ELSE normalized[l]])

\* path is the file at the path: whether it exists, whether its text is JSON,
\* the value the text parses to and, for a root object, its keys in the order
\* of the text.
load_item_bank(path) ==
  IF ~path.exists THEN Raised("FileNotFoundError", "Item bank file not found")
  ELSE IF ~path.json THEN Raised("ValueError", "Invalid JSON in item bank")
  ELSE IF path.raw_data.t # "dict"
    THEN Raised("ValueError", "Item bank must be a JSON object mapping levels to item lists.")
  ELSE LoadLevels(path, 1, {}, <<>>)

\* ------------------------------------------------------- the documents loaded
\* The five required keys of an entry.
Base(id, level, skill, type) ==
  [id |-> Str(id), level |-> Str(level), skill |-> Str(skill), type |-> Str(type),
   prompt |-> Str("p")]

TwoOptions == List(<<Str("a"), Str("b")>>)

Gap(number, answer) ==
  Obj([number |-> Num(number), answer |-> Str(answer), options |-> TwoOptions])

OpenGap(number) == Obj([number |-> Num(number), answer |-> Str("a")])

Word(number) ==
  Obj([number |-> Num(number), sentence |-> Str("s"), base |-> Str("b"), answer |-> Str("a")])

Transform(number) ==
  Obj([number |-> Num(number), original |-> Str("o"), keyword |-> Str("k"),
       answer |-> Str("a")])

WritingFields(task_type, min_words, max_words) ==
  [task_type |-> Str(task_type), min_words |-> Num(min_words),
   max_words |-> Num(max_words), rubric |-> List(<<Str("r")>>)]

\* Entries that follow the schema, one or more of each type.
GoodEntries(id, level) ==
  { Obj(Base(id, level, "grammar", "multiple_choice")
          @@ [options |-> TwoOptions, answer |-> Str("a")]),
    Obj(Base(id, level, "vocab", "multiple_choice")
          @@ [options |-> TwoOptions, answer |-> Str("b"), explanation |-> Str("e"),
              estimatedTime |-> Num(5), extra |-> Str("x")]),
    Obj(Base(id, level, "reading", "cloze_mc")
          @@ [cloze_items |-> List(<<Gap(1, "a"), Gap(2, "b")>>), cloze_text |-> Str("t"),
              passage |-> Str("passage")]),
    Obj(Base(id, level, "use_of_english", "cloze_open")
          @@ [cloze_items |-> List(<<OpenGap(1), OpenGap(2)>>), group_id |-> Str("g"),
              part |-> Str("part"), cloze_text |-> Obj(NoFields)]),
    Obj(Base(id, level, "vocab", "word_formation")
          @@ [word_formation_items |-> List(<<Word(1), Word(2)>>)]),
    Obj(Base(id, level, "use_of_english", "key_transform")
          @@ [transform_items |-> List(<<Transform(1), Transform(2)>>)]),
    Obj(Base(id, level, "writing", WRITING_TYPE)
          @@ WritingFields("essay", 2, 3) @@ [part |-> Str("writing_short")]),
    Obj(Base(id, level, "grammar", WRITING_TYPE) @@ WritingFields("short_answer", 1, 1)) }

\* Entries that depart from the schema of the specification in one point.
OddEntries(id, level) ==
  { Obj(Base(id, level, "grammar", "multiple_choice")
          @@ [options |-> TwoOptions, answer |-> Str("c")]),
    Obj(Base(id, level, "grammar", "multiple_choice")
          @@ [options |-> TwoOptions, answer |-> Str(" \t ")]),
    Obj(Base(id, level, "reading", "cloze_mc")
          @@ [cloze_items |-> List(<<Gap(1, "a"), Gap(2, "c")>>)]),
    Obj(Base(id, level, "reading", "cloze_mc")
          @@ [cloze_items |-> List(<<Gap(1, "a"), Gap(1, "b")>>)]),
    Obj(Base(id, level, "vocab", "word_formation")
          @@ [word_formation_items |-> List(<<Word(1), Word(1)>>)]),
    Obj(Base(id, level, "use_of_english", "key_transform")
          @@ [transform_items |-> List(<<Transform(1), Transform(1)>>)]),
    Obj(Base(id, level, "writing", "multiple_choice")
          @@ [options |-> TwoOptions, answer |-> Str("a")]),
    Obj(Base(id, level, "grammar", WRITING_TYPE) @@ WritingFields("essay", 2, 3)),
    Obj(Base(id, level, "writing", WRITING_TYPE) @@ WritingFields("essay", 3, 2)),
    Obj(Base(id, level, "writing", WRITING_TYPE)
          @@ WritingFields("essay", 2, 3) @@ [options |-> TwoOptions]),
    Obj([key \in {"id", "level", "skill", "type"} |->
           Base(id, level, "grammar", "multiple_choice")[key]]),
    Obj([Base(id, level, "grammar", "multiple_choice") EXCEPT !.prompt = Num(7)]
          @@ [options |-> TwoOptions, answer |-> Str("a")]),
    Obj(Base(id, "B1", "grammar", "multiple_choice")
          @@ [options |-> TwoOptions, answer |-> Str("a")]),
    Obj([Base(id, level, "grammar", "multiple_choice") EXCEPT !.id = List(<<Str(id)>>)]
          @@ [options |-> TwoOptions, answer |-> Str("a")]),
    Obj([Base(id, level, "grammar", "multiple_choice")
           EXCEPT !.skill = List(<<Str("grammar")>>)]
          @@ [options |-> TwoOptions, answer |-> Str("a")]),
    Str("junk") }

ItemIds == {"x", "y"}

\* The entries of a level: the good ones under either id, the odd ones under
\* the first.
Entries(level) ==
  UNION {GoodEntries(id, level) : id \in ItemIds} \cup OddEntries("x", level)

\* The files load_item_bank is called on.
File(exists, json, raw_data, keys) ==
  [exists |-> exists, json |-> json, raw_data |-> raw_data, keys |-> keys]

NoFile == File(FALSE, FALSE, Null, <<>>)

\* A root object with levels A1 and A2.
Document(a1, a2) == Obj([A1 |-> List(a1), A2 |-> List(a2)])

\* The orders the two levels can come in.
DocOrders == {<<"A1", "A2">>, <<"A2", "A1">>}

\* Files that are not such a document: no file, no JSON, a root that is a
\* list, a level that is not a list (alone, or before a level with an invalid
\* entry), and roots with a key that is no level.
OddFiles ==
  {NoFile,
   File(TRUE, FALSE, Null, <<>>),
   File(TRUE, TRUE, List(<<>>), <<>>),
   File(TRUE, TRUE, Obj([A1 |-> Str("junk")]), <<"A1">>),
   File(TRUE, TRUE, Obj([A1 |-> List(<<Str("junk")>>), A2 |-> Str("junk")]), <<"A2", "A1">>),
   File(TRUE, TRUE, Obj([X |-> Str("junk")]), <<"X">>),
   File(TRUE, TRUE, Obj([X |-> List(<<>>)]), <<"X">>),
   File(TRUE, TRUE, Obj([A1 |-> List(<<>>), X |-> List(<<Obj([id |-> Str("x")])>>)]),
        <<"A1", "X">>),
   File(TRUE, TRUE,
        Obj([X |-> List(<<Obj(Base("x", "X", "grammar", "multiple_choice")
                                @@ [options |-> TwoOptions, answer |-> Str("a")])>>)]),
        <<"X">>)}

\* load_item_bank has not been called.
NotLoaded ==
  [returned |-> FALSE, levels |-> <<>>, catalog |-> <<>>, raised |-> None,
   message |-> "not called"]

\* get_questions_by_level calling load_item_bank(ITEM_BANK_PATH).
Load ==
  /\ loaded = NotLoaded
  /\ loaded' = load_item_bank(bank_file)
  /\ UNCHANGED <<program, bank, ss, loop, adaptive, form, bank_file, draw, blocks, started>>

\* The file is one of OddFiles or holds a document of at most MaxEntries
\* entries, its two levels in either order.
InitLoad ==
  /\ program = "english_test_app"
  /\ bank = [available |-> [l \in LevelSet |-> FullPool], grouped |-> {}]
  /\ ss = reset_adaptive_state
  /\ loop = Idle
  /\ adaptive = init_adaptive_state(bank)
  /\ form = NoForm
  /\ \/ bank_file \in OddFiles
     \/ \E k1 \in 0..MaxEntries :
          \E k2 \in 0..(MaxEntries - k1) :
             \E a1 \in [1..k1 -> Entries("A1")], a2 \in [1..k2 -> Entries("A2")] :
                \E keys \in DocOrders :
                   bank_file = File(TRUE, TRUE, Document(a1, a2), keys)
  /\ loaded = NotLoaded
  /\ draw = NoDraw
  /\ blocks = NoBlocks
  /\ started = None

NextLoad == Load

SpecLoad == InitLoad /\ [][NextLoad]_vars

\* ======================================================================
\* Specification
\* ======================================================================
PoolSizes == {SmallPool, FullPool}

Init ==
  /\ program \in {"english_test_app", "app"}
  /\ bank \in [available : [LevelSet -> PoolSizes], grouped : SUBSET ADVANCED_LEVELS]
  /\ program = "english_test_app" => \A l \in LevelSet : bank.available[l] = FullPool
  /\ program = "app" => bank.grouped = {}
  /\ ss = reset_adaptive_state
  /\ loop = Idle
  /\ adaptive = IF program = "app" THEN Absent ELSE init_adaptive_state(bank)
  /\ form = NoForm
  /\ bank_file = NoFile
  /\ loaded = NotLoaded
  /\ draw = NoDraw
  /\ blocks = NoBlocks
  /\ started = None

Next ==
  \/ SubmitAnswer
  \/ StartGroup
  \/ SubmitPart
  \/ SubmitPartNext
  \/ Reset
  \/ ShowLanding
  \/ StartTest
  \/ OpenTest
  \/ AnswerQuestion
  \/ NewDiagnosis

Spec == Init /\ [][Next]_vars

\* The question form of english_test_app on its own: sessions of FormMaxItems answers.
InitForm ==
  /\ program = "english_test_app"
  /\ bank = [available |-> [l \in LevelSet |-> FullPool], grouped |-> {}]
  /\ ss = reset_adaptive_state
  /\ loop = Idle
  /\ adaptive = init_adaptive_state(bank)
  /\ form = NoForm
  /\ bank_file = NoFile
  /\ loaded = NotLoaded
  /\ draw = NoDraw
  /\ blocks = NoBlocks
  /\ started = None

NextForm ==
  \/ FormPick
  \/ FormEdit
  \/ FormSubmit

SpecForm == InitForm /\ [][NextForm]_vars

\* One session of either engine, every presented item being answered in the
\* end: the steps of Next but the two that start a new session, under weak
\* fairness (a submit that stays possible is eventually made).
NextSession ==
  \/ SubmitAnswer
  \/ StartGroup
  \/ SubmitPart
  \/ SubmitPartNext
  \/ AnswerQuestion

\* A session at its first question, over the banks of Init whose pools have
\* one size at every level and whose advanced levels are all grouped or all
\* single.
InitSession ==
  /\ program \in {"english_test_app", "app"}
  /\ bank \in [available : [LevelSet -> PoolSizes], grouped : SUBSET ADVANCED_LEVELS]
  /\ program = "english_test_app" => \A l \in LevelSet : bank.available[l] = FullPool
  /\ program = "app" => bank.grouped = {}
  /\ bank.grouped \in {{}, ADVANCED_LEVELS}
  /\ \A l \in LevelSet : bank.available[l] = bank.available[LEVELS[1]]
  /\ ss = reset_adaptive_state
  /\ loop = Idle
  /\ adaptive = init_adaptive_state(bank)
  /\ form = NoForm
  /\ bank_file = NoFile
  /\ loaded = NotLoaded
  /\ draw = NoDraw
  /\ blocks = NoBlocks
  /\ started = IF program = "app" THEN "True" ELSE None

SpecSession == InitSession /\ [][NextSession]_vars /\ WF_vars(NextSession)

\* app.py over every pool size from 1 to MaxAvailable (the same at each level):
\* start_new_block applies get_block_rules to each of them.
InitRules ==
  /\ program = "app"
  /\ \E n \in 1..MaxAvailable :
       bank = [available |-> [l \in LevelSet |-> n], grouped |-> {}]
  /\ ss = reset_adaptive_state
  /\ loop = Idle
  /\ adaptive = Absent
  /\ form = NoForm
  /\ bank_file = NoFile
  /\ loaded = NotLoaded
  /\ draw = NoDraw
  /\ blocks = NoBlocks
  /\ started = None

NextRules ==
  \/ ShowLanding
  \/ StartTest
  \/ OpenTest
  \/ AnswerQuestion
  \/ NewDiagnosis

SpecRules == InitRules /\ [][NextRules]_vars

\* st.session_state.block after process_adaptive_answer has taken the session
\* to s1: the block with its counters moved, or the block new_block has made
\* when evaluate_block_completion opened one (its used ids are empty).
BlockAfter(block, s1) ==
  IF s1.block.presented = 0 THEN DrawBlock(s1.block.level)
  ELSE [block EXCEPT !.presented = s1.block.presented,
                     !.correct = s1.block.correct,
                     !.wrong = s1.block.wrong]

\* process_adaptive_answer on the next of the returned questions (the one
\* question of a pick, the questions of a group in turn in the "Submit part"
\* loop, which clears the group after the last): the answer is counted in the
\* block and evaluate_block_completion closes the block when it is over.
\* A writing answer always counts as correct.
CountPresented ==
  /\ draw.returned # <<>>
  /\ ss.history.len < Climbed(draw.level) + MaxPresented
  /\ \E is_correct \in (IF Head(draw.returned).type = WRITING_TYPE
                           THEN {TRUE} ELSE BOOLEAN) :
       LET s1 == IF ServedByGroups
                   THEN FoldGroupAnswer(ss, Head(draw.returned).level,
                                        Len(draw.returned), is_correct)
                   ELSE process_adaptive_answer(ss, Head(draw.returned), is_correct)
       IN  /\ ss' = s1
           /\ draw' = [draw EXCEPT !.returned = Tail(@),
                                   !.block = BlockAfter(draw.block, s1),
                                   !.level = s1.block.level,
                                   !.call = "answer"]
  /\ UNCHANGED <<program, bank, loop, adaptive, form, bank_file, loaded, blocks, started>>

\* The drawing functions on a block of any level below C2 over every catalog
\* of one to MaxCatalog of the items.
InitDraw ==
  /\ program = "english_test_app"
  /\ bank = [available |-> [l \in LevelSet |-> FullPool], grouped |-> {}]
  /\ loop = Idle
  /\ adaptive = init_adaptive_state(bank)
  /\ form = NoForm
  /\ bank_file = NoFile
  /\ loaded = NotLoaded
  /\ \E level \in DrawLevels :
       \E places \in SUBSET (1..Len(CatalogItems(level))) :
          /\ Cardinality(places) \in 1..MaxCatalog
          /\ ss = SessionAt(reset_adaptive_state, level)
          /\ draw = [level |-> level,
                     questions_by_level |->
                       [l \in LevelSet |->
                          IF l = level
                            THEN [k \in 1..Cardinality(places) |->
                                    CatalogItems(level)[Ordered(places)[k]]]
                            ELSE <<>>],
                     block |-> DrawBlock(level),
                     returned |-> <<>>,
                     call |-> None]
  /\ blocks = NoBlocks
  /\ started = None

NextDraw ==
  \/ CallPick
  \/ CallStartGroup
  \/ CountPresented

SpecDraw == InitDraw /\ [][NextDraw]_vars

\* The blocks of one level of an app.py session, with the ids of the items:
\* any level over a thin or a full pool, A1 (the only level a session opens
\* two blocks at) over a rich pool as well.
InitBlocks ==
  /\ program = "app"
  /\ bank = [available |-> [l \in LevelSet |-> FullPool], grouped |-> {}]
  /\ ss = reset_adaptive_state
  /\ loop = Idle
  /\ adaptive = init_adaptive_state(bank)
  /\ form = NoForm
  /\ bank_file = NoFile
  /\ loaded = NotLoaded
  /\ draw = NoDraw
  /\ started = "True"
  /\ \E level \in LevelSet :
       \E n \in PoolSizes \cup (IF level = LEVELS[1] THEN {RichPool} ELSE {}) :
          blocks = [NoBlocks EXCEPT !.level = level, !.eligible = 1..n]

NextBlocks ==
  \/ OpenBlock
  \/ AnswerInBlock

SpecBlocks == InitBlocks /\ [][NextBlocks]_vars

\* ======================================================================
\* Properties
\* ======================================================================
English == program = "english_test_app"
\* app.py with a session in st.session_state.
App == program = "app" /\ adaptive # Absent

\* C1: in app.py neither total_questions nor the length of history ever
\* exceeds MAX_TOTAL_ITEMS.
C1_CapApp ==
  App => /\ adaptive.total_questions <= MAX_TOTAL_ITEMS
         /\ adaptive.history.len <= MAX_TOTAL_ITEMS

\* C2: in english_test_app len(history) never exceeds MAX_QUESTIONS, under
\* single submits and grouped "Submit part" submits alike.
C2_CapEnglish ==
  English => ss.history.len <= MAX_QUESTIONS

\* C3: in both engines a block is closed as passed by the very submission that
\* raises its correct count to the promotion threshold, so no block that is
\* still open has reached its threshold.
C3_PassAtThreshold ==
  /\ (English /\ ~ss.finished) =>
        ss.block.correct < LEVEL_RULES[ss.block.level].promotion_threshold
  /\ (App /\ ~adaptive.finished) =>
        adaptive.current_block.correct < adaptive.current_block.threshold

\* A block of english_test_app stopped by three wrong answers below the threshold.
EarlyStopped(block) ==
  /\ block.wrong >= EARLY_STOP_WRONGS
  /\ block.correct < LEVEL_RULES[block.level].promotion_threshold

\* The same for a block of app.py.
AppEarlyStopped(block) ==
  /\ block.incorrect >= EARLY_STOP_ERRORS
  /\ block.correct < block.threshold

\* C4: in both engines the third wrong answer below the threshold closes the
\* block at once: no open block has wrong >= 3 with correct < threshold, and
\* no further item is folded into a block in that condition.
C4_EarlyStopAtThirdWrong ==
  [][ /\ (English /\ ~ss'.finished) => ~EarlyStopped(ss'.block)
      /\ (App' /\ ~adaptive'.finished) => ~AppEarlyStopped(adaptive'.current_block)
      /\ (English /\ EarlyStopped(ss.block)) =>
            (ss'.block = ss.block \/ ss'.block.presented = 0)
      /\ (App /\ App' /\ AppEarlyStopped(adaptive.current_block)) =>
            (adaptive'.current_block = adaptive.current_block
               \/ adaptive'.current_block.answered = 0) ]_vars

\* The first two entries of a block-result log are failed blocks at A1.
TwoFailsAtA1(log, passedOf(_)) ==
  /\ Len(log) >= 2
  /\ \A i \in 1..2 : log[i].level = "A1" /\ ~passedOf(log[i])

PassedField(r) == r.passed
SuccessField(r) == r.success

\* C5: when the first two blocks of a session are failed A1 blocks, the session
\* is finished with final level A1 (unconfirmed in english_test_app) and no
\* third A1 block is opened.
C5_TwoFailsAtA1Finish ==
  /\ (English /\ TwoFailsAtA1(ss.block_results, PassedField)) =>
        (ss.finished /\ ss.final_level = "A1" /\ ~ss.confirmed)
  /\ (App /\ TwoFailsAtA1(adaptive.block_results, SuccessField)) =>
        (adaptive.finished /\ adaptive.final_level = "A1")

\* Entry i of the log is a pass at some level and entry i+1 a fail one level up.
PassThenFailAbove(log, passedOf(_), i) ==
  /\ passedOf(log[i])
  /\ ~passedOf(log[i + 1])
  /\ LevelIndex(log[i + 1].level) = LevelIndex(log[i].level) + 1

\* C6: a pass at level N followed by a fail of the next block at level N+1
\* finishes the session with final level N (confirmed in english_test_app).
C6_PassThenFailConfirms ==
  /\ English =>
       \A i \in 1..(Len(ss.block_results) - 1) :
          PassThenFailAbove(ss.block_results, PassedField, i) =>
            /\ ss.finished
            /\ ss.final_level = ss.block_results[i].level
            /\ ss.confirmed
  /\ App =>
       \A i \in 1..(Len(adaptive.block_results) - 1) :
          PassThenFailAbove(adaptive.block_results, SuccessField, i) =>
            /\ adaptive.finished
            /\ adaptive.final_level = adaptive.block_results[i].level

\* Some level has two passed blocks in the log.
TwoPassesSomeLevel(log) ==
  \E i, j \in 1..Len(log) :
     i < j /\ log[i].passed /\ log[j].passed /\ log[i].level = log[j].level

\* A passed block at `level` is immediately followed by a failed block one level up.
PassThenFailAt(log, level) ==
  \E i \in 1..(Len(log) - 1) :
     log[i].level = level /\ PassThenFailAbove(log, PassedField, i)

\* C7: in english_test_app confirmed == True is always justified by the log:
\* two passed blocks at one level, or a pass at the final level immediately
\* followed by a fail at the next level up.
C7_ConfirmedJustified ==
  (English /\ ss.confirmed) =>
     \/ TwoPassesSomeLevel(ss.block_results)
     \/ PassThenFailAt(ss.block_results, ss.final_level)

\* C8: in english_test_app, once finished is True nothing of the outcome, the
\* logs, the block counters or passed_blocks changes until reset_adaptive_state.
C8_FrozenOnceFinished ==
  [][ (English /\ ss.finished) =>
        \/ ss' = reset_adaptive_state
        \/ /\ ss'.finished
           /\ ss'.final_level = ss.final_level
           /\ ss'.confirmed = ss.confirmed
           /\ ss'.history = ss.history
           /\ ss'.block_results = ss.block_results
           /\ ss'.block = ss.block
           /\ ss'.passed_blocks = ss.passed_blocks ]_vars

\* The step folds the answer that brings len(history) to MAX_QUESTIONS and no
\* block outcome of that answer finishes the session (a block that closes
\* without finishing is replaced by a fresh one).
FoldsFiftiethWithoutOutcomeFinish ==
  /\ English
  /\ ss.history.len = MAX_QUESTIONS - 1
  /\ ss'.history.len = MAX_QUESTIONS
  /\ \/ ss'.block_results = ss.block_results
     \/ ss'.block.presented = 0

\* C9: the answer that brings len(history) to 50 without finishing the session
\* through a block outcome leaves the session finished, unconfirmed, at the
\* highest level with a pass (the current level when there is none).
C9_CapBestGuess ==
  [][ FoldsFiftiethWithoutOutcomeFinish =>
        /\ ss'.finished
        /\ ~ss'.confirmed
        /\ ss'.final_level =
             (IF HighestPassed(ss', Len(LEVEL_SEQUENCE)) # -1
                THEN LevelAt(HighestPassed(ss', Len(LEVEL_SEQUENCE)))
                ELSE ss'.block.level) ]_vars

\* C10: under single-answer submissions every block keeps
\* correct + wrong == presented and presented <= block size, in both engines
\* (the current block and the block closed last).
C10_BlockCounters ==
  /\ (English /\ bank.grouped = {}) =>
        /\ ss.block.correct + ss.block.wrong = ss.block.presented
        /\ ss.block.presented <= LEVEL_RULES[ss.block.level].block_size
        /\ ss.last_result.correct + ss.last_result.wrong = ss.last_result.presented
        /\ ss.last_result.level # None =>
              ss.last_result.presented <= LEVEL_RULES[ss.last_result.level].block_size
  /\ App =>
        /\ adaptive.current_block.correct + adaptive.current_block.incorrect
              = adaptive.current_block.answered
        /\ adaptive.current_block.answered <= adaptive.current_block.block_size
        /\ adaptive.last_result.correct <= adaptive.last_result.total
        /\ adaptive.last_result.level # None =>
              adaptive.last_result.total
                 <= get_block_rules(adaptive.last_result.level,
                                    bank.available[adaptive.last_result.level]).block_size

\* A full block with both right and wrong answers has just been closed under
\* single-answer submissions.
C10_Witness ==
  /\ English
  /\ bank.grouped = {}
  /\ ss.last_result.level # None
  /\ ss.last_result.presented = LEVEL_RULES[ss.last_result.level].block_size
  /\ ss.last_result.correct > 0
  /\ ss.last_result.wrong > 0

\* Entries i and i+1 of the log are passed blocks at one level.
TwoPassesInARow(log, passedOf(_), i) ==
  /\ passedOf(log[i])
  /\ passedOf(log[i + 1])
  /\ log[i].level = log[i + 1].level

\* C11: whenever two consecutive closed blocks at one level have both passed,
\* the session is finished with that level as final level (and confirmed in
\* english_test_app).
C11_TwoPassesConfirm ==
  /\ English =>
       \A i \in 1..(Len(ss.block_results) - 1) :
          TwoPassesInARow(ss.block_results, PassedField, i) =>
            /\ ss.finished
            /\ ss.final_level = ss.block_results[i].level
            /\ ss.confirmed
  /\ App =>
       \A i \in 1..(Len(adaptive.block_results) - 1) :
          TwoPassesInARow(adaptive.block_results, SuccessField, i) =>
            /\ adaptive.finished
            /\ adaptive.final_level = adaptive.block_results[i].level

\* The log ends with two passed blocks at one level.
C11_Witness ==
  /\ English
  /\ Len(ss.block_results) >= 2
  /\ TwoPassesInARow(ss.block_results, PassedField, Len(ss.block_results) - 1)

\* The level after `level` in A1..C2.
NextLevel(level) == LevelAt(LevelIndex(level) + 1)

\* C12: a block pass raises the level's pass counter by exactly one; at C2 it
\* finishes the session with final level C2 (confirmed in english_test_app);
\* below C2, with the counter below 2, it opens a fresh block with zero counters
\* at exactly the next level.
C12_PassPromotes ==
  [][ /\ (/\ English
          /\ Len(ss'.block_results) = Len(ss.block_results) + 1
          /\ ss'.last_result.passed) =>
            LET level == ss'.last_result.level IN
              /\ ss'.passed_blocks[level] = ss.passed_blocks[level] + 1
              /\ level = "C2" =>
                   (ss'.finished /\ ss'.final_level = "C2" /\ ss'.confirmed)
              /\ (level # "C2" /\ ss'.passed_blocks[level] < 2) =>
                   ss'.block = new_block(NextLevel(level))
      /\ (/\ App
          /\ App'
          /\ Len(adaptive'.block_results) = Len(adaptive.block_results) + 1
          /\ adaptive'.last_result.success) =>
            LET level == adaptive'.last_result.level IN
              /\ adaptive'.success_streaks[level] = adaptive.success_streaks[level] + 1
              /\ level = "C2" =>
                   (adaptive'.finished /\ adaptive'.final_level = "C2")
              /\ (level # "C2" /\ adaptive'.success_streaks[level] < 2) =>
                   /\ adaptive'.current_block.level = NextLevel(level)
                   /\ adaptive'.current_block.answered = 0
                   /\ adaptive'.current_block.correct = 0
                   /\ adaptive'.current_block.incorrect = 0 ]_vars

\* The response leaves the question incomplete: an unanswered choice, a
\* composite item with a blank sub-element, a text outside the word range.
Incomplete(question, response) ==
  \/ question.type = "multiple_choice" /\ response = NoText
  \/ /\ question.type \in {"cloze_mc", "cloze_open", "word_formation", "key_transform"}
     /\ \E i \in 1..Len(SubItems(question)) :
          normalize_free_text(response[SubItems(question)[i].number]) = <<>>
  \/ /\ question.type = WRITING_TYPE
     /\ (count_words(response) < question.min_words
           \/ count_words(response) > question.max_words)

\* C13: while the form holds an incomplete response no step changes the session
\* state, the used ids, the feedback or the current question, and a step that
\* leaves the response as it is (the submit) puts a warning on screen.
C13_IncompleteKeepsState ==
  [][ (form.question # NoQuestion /\ Incomplete(form.question, form.response)) =>
        /\ ss' = ss
        /\ form'.question = form.question
        /\ form'.used_ids = form.used_ids
        /\ form'.feedback = form.feedback
        /\ form'.response = form.response => form'.warning # NoWarning ]_vars

\* A text below the word range was submitted after an answer had been recorded:
\* the warning names the minimum and the count.
C13_Witness ==
  /\ form.question.type = WRITING_TYPE
  /\ count_words(form.response) = 1
  /\ form.warning.limit = form.question.min_words
  /\ form.warning.actual = 1
  /\ ss.history.len > 0

\* C14: a step that records the answer to a writing item adds one to the
\* block's correct counter and nothing to its wrong counter (read from
\* last_result when the step closes the block), whatever the evaluator found.
C14_WritingCountsCorrect ==
  [][ (form.question.type = WRITING_TYPE /\ ss'.history.len = ss.history.len + 1) =>
        /\ ss'.history.last.correct
        /\ IF Len(ss'.block_results) = Len(ss.block_results)
             THEN /\ ss'.block.correct = ss.block.correct + 1
                  /\ ss'.block.wrong = ss.block.wrong
             ELSE /\ ss'.last_result.correct = ss.block.correct + 1
                  /\ ss'.last_result.wrong = ss.block.wrong ]_vars

\* A writing answer was recorded with a rubric that does not pass, on a block
\* that already had two wrong answers.
C14_Witness ==
  /\ form.feedback.type = WRITING_TYPE
  /\ form.feedback.score.ai_evaluation.available
  /\ ~form.feedback.score.ai_evaluation.passing
  /\ ss.history.last.correct
  /\ ss.block.wrong = 2
  /\ ss.block.correct = 1

\* A writing answer was recorded without the evaluator (pending manual review).
C14_WitnessPending ==
  /\ form.feedback.type = WRITING_TYPE
  /\ form.feedback.score.pending_manual_review
  /\ ss.block.correct >= 1

\* ---------------------------------------------------------- load_item_bank
\* load_item_bank has been called on the file.
Called == loaded # NotLoaded

\* The file holds a root object whose levels hold lists.
IsDocument ==
  /\ bank_file.exists
  /\ bank_file.json
  /\ bank_file.raw_data.t = "dict"
  /\ \A level \in DOMAIN bank_file.raw_data.d : bank_file.raw_data.d[level].t = "list"

\* The file holds a document with the levels A1 and A2.
TwoLevels == IsDocument /\ DOMAIN bank_file.raw_data.d = {"A1", "A2"}

\* The entries of a level of the document, the items of a level of the catalog.
DocList(level) == bank_file.raw_data.d[level].v
CatList(level) == loaded.catalog[level]

\* The places <<level, index>> of a root object or of a catalog.
Places(levels, list(_)) == UNION {{<<level, i>> : i \in 1..Len(list(level))} : level \in levels}
DocPlaces == Places(DOMAIN bank_file.raw_data.d, DocList)
CatPlaces == Places(DOMAIN loaded.catalog, CatList)
DocAt(place) == DocList(place[1])[place[2]]
CatAt(place) == CatList(place[1])[place[2]]

\* The position of a level among the keys of the root object.
KeyIndex(level) == CHOOSE k \in 1..Len(bank_file.keys) : bank_file.keys[k] = level

\* Place p comes before place q in the document.
Before(p, q) ==
  \/ KeyIndex(p[1]) < KeyIndex(q[1])
  \/ p[1] = q[1] /\ p[2] < q[2]

\* Two entries of the document carry the same id.
RepeatedId ==
  /\ IsDocument
  /\ \E p \in DocPlaces, q \in DocPlaces :
       /\ p # q
       /\ DocAt(p).t = "dict" /\ "id" \in DOMAIN DocAt(p).d
       /\ DocAt(q).t = "dict" /\ "id" \in DOMAIN DocAt(q).d
       /\ DocAt(p).d["id"] = DocAt(q).d["id"]

\* No two items of the returned catalog share an id.
UniqueIds ==
  loaded.returned =>
    \A p \in CatPlaces, q \in CatPlaces : p # q => CatAt(p).d["id"] # CatAt(q).d["id"]

\* C15: no returned catalog has two items with one id, and every document
\* with a repeated id is rejected with the 'Duplicate item id' ValueError.
C15_DuplicateIdRejected ==
  /\ UniqueIds
  /\ (Called /\ RepeatedId) =>
       (loaded.raised = "ValueError" /\ loaded.message = "Duplicate item id detected")

\* Every entry of the document follows the schema.
AllGoodEntries ==
  \A p \in DocPlaces : \E id \in ItemIds : DocAt(p) \in GoodEntries(id, p[1])

\* The entry at place q repeats an id and is the first schema violation the
\* loader meets: the levels up to its own hold lists, every entry before it
\* follows the schema under an id of its own, and the entry itself is an
\* object with the required keys whose id is the id of an entry before it
\* (whatever its other fields hold).
RepeatMetFirstAt(q) ==
  LET before == {p \in DocPlaces : Before(p, q)}
  IN  /\ \A level \in DOMAIN bank_file.raw_data.d :
            KeyIndex(level) <= KeyIndex(q[1]) => bank_file.raw_data.d[level].t = "list"
      /\ \A p \in before : \E id \in ItemIds : DocAt(p) \in GoodEntries(id, p[1])
      /\ \A p \in before, r \in before : p # r => DocAt(p).d["id"] # DocAt(r).d["id"]
      /\ DocAt(q).t = "dict"
      /\ {"id", "level", "skill", "type", "prompt"} \subseteq DOMAIN DocAt(q).d
      /\ \E p \in before : DocAt(p).d["id"] = DocAt(q).d["id"]

RepeatMetFirst ==
  /\ bank_file.exists
  /\ bank_file.json
  /\ bank_file.raw_data.t = "dict"
  /\ \E q \in DocPlaces : RepeatMetFirstAt(q)

\* C15 (amended): no returned catalog has two items with one id; every
\* document with a repeated id is rejected with an error and no catalog, and
\* the error is the 'Duplicate item id' ValueError when the repeat is the first
\* schema violation met, in particular when every entry otherwise follows the
\* schema.
C15_DuplicateIdRejectedFirst ==
  /\ UniqueIds
  /\ (Called /\ RepeatedId) => (~loaded.returned /\ loaded.raised # None)
  /\ (RepeatedId /\ AllGoodEntries) => RepeatMetFirst
  /\ (Called /\ RepeatMetFirst) =>
       (loaded.raised = "ValueError" /\ loaded.message = "Duplicate item id detected")

\* A valid item is followed by an entry with its id and the level of another
\* section: the load has raised for the repeated id, not for the level.
C15_WitnessMismatch ==
  /\ Called
  /\ TwoLevels
  /\ Len(DocList("A1")) = 2
  /\ \E id \in ItemIds : DocAt(<<"A1", 1>>) \in GoodEntries(id, "A1")
  /\ DocAt(<<"A1", 2>>).t = "dict"
  /\ DocAt(<<"A1", 2>>).d["id"] = DocAt(<<"A1", 1>>).d["id"]
  /\ DocAt(<<"A1", 2>>).d["level"] = Str("B1")
  /\ RepeatMetFirst
  /\ loaded.message = "Duplicate item id detected"

\* An id of level A1 comes again at level A2 and the load has raised.
C15_Witness ==
  /\ Called
  /\ TwoLevels
  /\ Len(DocList("A1")) = 1
  /\ Len(DocList("A2")) = 1
  /\ AllGoodEntries
  /\ DocAt(<<"A1", 1>>).d["id"] = DocAt(<<"A2", 1>>).d["id"]
  /\ loaded.message = "Duplicate item id detected"

\* The numbers of the sub-elements of a composite item.
SubElements(item) ==
  IF item.d["type"].s \in {"cloze_mc", "cloze_open"} THEN item.d["cloze_items"].v
  ELSE IF item.d["type"].s = "word_formation" THEN item.d["word_formation_items"].v
  ELSE IF item.d["type"].s = "key_transform" THEN item.d["transform_items"].v
  ELSE <<>>

\* C16: in a returned catalog the answer of every multiple_choice item is one
\* of its options and the answer of every gap of every cloze_mc item is one
\* of the gap's options.
C16_AnswerAmongOptions ==
  loaded.returned =>
    \A p \in CatPlaces :
       LET item == CatAt(p) IN
         /\ item.d["type"].s = "multiple_choice" =>
              \E i \in 1..Len(item.d["options"].v) :
                 item.d["options"].v[i] = item.d["answer"]
         /\ item.d["type"].s = "cloze_mc" =>
              \A g \in 1..Len(SubElements(item)) :
                 LET gap == SubElements(item)[g] IN
                   \E i \in 1..Len(gap.d["options"].v) :
                      gap.d["options"].v[i] = gap.d["answer"]

\* A catalog with a multiple_choice item and a cloze_mc item was returned.
C16_Witness ==
  /\ loaded.returned
  /\ \E p \in CatPlaces : CatAt(p).d["type"].s = "multiple_choice"
  /\ \E p \in CatPlaces : CatAt(p).d["type"].s = "cloze_mc"

\* The ids of the entries before place p.
IdsBefore(p) == {DocAt(q).d["id"] : q \in {q \in DocPlaces : Before(q, p)}}

\* C17: a call either returns a catalog holding one item for every entry of
\* the document, each entry passing every check, or raises (FileNotFoundError
\* for a missing file, ValueError otherwise) and returns nothing.
C17_AllOrNothing ==
  Called =>
    IF loaded.returned
      THEN /\ loaded.raised = None
           /\ IsDocument
           /\ DOMAIN loaded.catalog = DOMAIN bank_file.raw_data.d
           /\ \A level \in DOMAIN loaded.catalog :
                Len(CatList(level)) = Len(DocList(level))
           /\ \A p \in DocPlaces : EntryError(p[1], DocAt(p), IdsBefore(p)) = None
      ELSE /\ loaded.catalog = <<>>
           /\ loaded.raised \in {"FileNotFoundError", "ValueError"}
           /\ loaded.raised = "FileNotFoundError" <=> ~bank_file.exists
           /\ (bank_file.exists /\ ~bank_file.json) =>
                loaded.message = "Invalid JSON in item bank"

\* C17, without the class of the error: a call either returns a catalog
\* holding one item for every entry of the document, each entry passing every
\* check, or raises and returns nothing.
C17_NothingOnError ==
  Called =>
    IF loaded.returned
      THEN /\ loaded.raised = None
           /\ IsDocument
           /\ loaded.levels = bank_file.keys
           /\ DOMAIN loaded.catalog = DOMAIN bank_file.raw_data.d
           /\ \A level \in DOMAIN loaded.catalog :
                Len(CatList(level)) = Len(DocList(level))
           /\ \A p \in DocPlaces : EntryError(p[1], DocAt(p), IdsBefore(p)) = None
      ELSE /\ loaded.catalog = <<>>
           /\ loaded.raised # None

\* The load has raised on the second entry of A1, after a first entry that
\* passes every check.
C17_Witness ==
  /\ Called
  /\ TwoLevels
  /\ bank_file.keys[1] = "A1"
  /\ Len(DocList("A1")) = 2
  /\ EntryError("A1", DocAt(<<"A1", 1>>), {}) = None
  /\ loaded.raised = "ValueError"
  /\ ~loaded.returned

\* C18: in a returned catalog the numbers of the sub-elements of a composite
\* item are pairwise distinct.
C18_DistinctNumbers ==
  loaded.returned =>
    \A p \in CatPlaces :
       \A i \in 1..Len(SubElements(CatAt(p))), j \in 1..Len(SubElements(CatAt(p))) :
          i # j => SubElements(CatAt(p))[i].d["number"] # SubElements(CatAt(p))[j].d["number"]

\* C19: in a returned catalog an item has skill writing exactly when its type
\* is open_text.
C19_WritingIffOpenText ==
  loaded.returned =>
    \A p \in CatPlaces :
       CatAt(p).d["skill"].s = "writing" <=> CatAt(p).d["type"].s = WRITING_TYPE

\* C19 (amended): in a returned catalog an item of skill writing has type
\* open_text, and an item of type open_text has skill writing or task_type
\* "short_answer".
C19_WritingRule ==
  loaded.returned =>
    \A p \in CatPlaces :
       /\ CatAt(p).d["skill"].s = "writing" => CatAt(p).d["type"].s = WRITING_TYPE
       /\ CatAt(p).d["type"].s = WRITING_TYPE =>
            \/ CatAt(p).d["skill"].s = "writing"
            \/ CatAt(p).d["task_type"] = Str("short_answer")

\* A catalog was returned with a writing item and with an open_text item of
\* another skill.
C19_Witness ==
  /\ loaded.returned
  /\ \E p \in CatPlaces :
       CatAt(p).d["skill"].s = "writing" /\ CatAt(p).d["type"].s = WRITING_TYPE
  /\ \E p \in CatPlaces :
       CatAt(p).d["skill"].s # "writing" /\ CatAt(p).d["type"].s = WRITING_TYPE

\* The keys a record of the catalog may have.
KnownFields ==
  {"id", "level", "skill", "type", "prompt", "options", "answer", "explanation",
   "part", "group_id", "passage", "estimated_time", "task_type", "min_words",
   "max_words", "rubric", "cloze_items", "cloze_text", "word_formation_items",
   "transform_items"}

\* The field is provided by the entry: present and not null.
Provided(entry, key) == key \in DOMAIN entry.d /\ entry.d[key].t # "null"

\* C20: a returned catalog has, under each level of the document, one record
\* per entry in the order of the entries; the record keeps id, skill, type and
\* prompt, has the level it is stored under, carries part, group_id and passage
\* when the entry provides them and the writing fields of a writing item, and
\* has no key outside the known fields.
C20_RecordsKept ==
  loaded.returned =>
    /\ DOMAIN loaded.catalog = DOMAIN bank_file.raw_data.d
    /\ \A level \in DOMAIN loaded.catalog : Len(CatList(level)) = Len(DocList(level))
    /\ \A p \in DocPlaces :
         LET entry == DocAt(p)
             record == CatAt(p)
         IN  /\ \A key \in {"id", "skill", "type", "prompt", "level"} :
                  record.d[key] = entry.d[key]
             /\ record.d["level"] = Str(p[1])
             /\ \A key \in {"part", "group_id", "passage"} :
                  Provided(entry, key) =>
                    (key \in DOMAIN record.d /\ record.d[key] = entry.d[key])
             /\ entry.d["type"].s = WRITING_TYPE =>
                  \A key \in {"task_type", "min_words", "max_words", "rubric"} :
                     key \in DOMAIN record.d /\ record.d[key] = entry.d[key]
             /\ DOMAIN record.d \subseteq KnownFields

\* A catalog was returned for a document whose level A1 holds an entry with
\* an unknown field followed by a writing entry with a part.
C20_Witness ==
  /\ loaded.returned
  /\ TwoLevels
  /\ Len(DocList("A1")) = 2
  /\ "extra" \in DOMAIN DocAt(<<"A1", 1>>).d
  /\ DocAt(<<"A1", 2>>).d["type"].s = WRITING_TYPE
  /\ Provided(DocAt(<<"A1", 2>>), "part")
  /\ CatAt(<<"A1", 2>>).d["id"] = DocAt(<<"A1", 2>>).d["id"]

\* C23: in both engines a block closed as failed before it is full was closed
\* in a state where the threshold was out of reach:
\* correct + (block size - presented) < threshold.
C23_EarlyCloseOnlyWhenHopeless ==
  /\ (English /\ ss.last_result.level # None /\ ~ss.last_result.passed
        /\ ss.last_result.presented < LEVEL_RULES[ss.last_result.level].block_size) =>
       ss.last_result.correct
         + (LEVEL_RULES[ss.last_result.level].block_size - ss.last_result.presented)
         < LEVEL_RULES[ss.last_result.level].promotion_threshold
  /\ (App /\ adaptive.last_result.level # None /\ ~adaptive.last_result.success
        /\ adaptive.last_result.total
             < get_block_rules(adaptive.last_result.level,
                               bank.available[adaptive.last_result.level]).block_size) =>
       adaptive.last_result.correct
         + (get_block_rules(adaptive.last_result.level,
                            bank.available[adaptive.last_result.level]).block_size
              - adaptive.last_result.total)
         < adaptive.last_result.threshold

\* t is ceil(num / den * size): the least integer with den * t >= num * size.
IsCeil(t, num, den, size) ==
  /\ den * t >= num * size
  /\ den * (t - 1) < num * size

\* C25: the rules of every block app.py opens: block_size is the pool size
\* below 5 items and min(desired, pool size) otherwise (desired 12 at C1/C2,
\* else 10), threshold is ceil(0.75 * size) at C1/C2 and ceil(0.8 * size)
\* otherwise, 1 <= threshold <= block_size <= pool size, and a pool of at least
\* the desired size gives the values of LEVEL_RULES.
C25_BlockRules ==
  (App /\ adaptive.current_block.level # None) =>
     LET block == adaptive.current_block
         available == bank.available[block.level]
         top == block.level \in {"C1", "C2"}
         desired == IF top THEN 12 ELSE 10
     IN  /\ block.block_size =
              (IF available < 5 \/ available < desired THEN available ELSE desired)
         /\ IF top THEN IsCeil(block.threshold, 3, 4, block.block_size)
                   ELSE IsCeil(block.threshold, 4, 5, block.block_size)
         /\ 1 <= block.threshold
         /\ block.threshold <= block.block_size
         /\ block.block_size <= available
         /\ available >= desired =>
              /\ block.block_size = LEVEL_RULES[block.level].block_size
              /\ block.threshold = LEVEL_RULES[block.level].promotion_threshold

\* A C2 block over a pool of 7 items (7 of 12 wanted, threshold 6) is being answered.
C25_Witness ==
  /\ App
  /\ adaptive.current_block.level = "C2"
  /\ bank.available["C2"] = 7
  /\ adaptive.current_block.block_size = 7
  /\ adaptive.current_block.threshold = 6
  /\ adaptive.current_block.answered = 1

\* C27: under single-answer submissions no level's pass counter
\* (passed_blocks, success_streaks) ever reaches 2.
C27_NoSecondPass ==
  /\ (English /\ bank.grouped = {}) => \A l \in LevelSet : ss.passed_blocks[l] < 2
  /\ App => \A l \in LevelSet : adaptive.success_streaks[l] < 2

\* A1 was failed once and then passed under single submits, and the session
\* went on to A2 with one pass counted at A1.
C27_Witness ==
  /\ English
  /\ bank.grouped = {}
  /\ Len(ss.block_results) = 2
  /\ ss.block_results[1] = [level |-> "A1", passed |-> FALSE]
  /\ ss.block_results[2] = [level |-> "A1", passed |-> TRUE]
  /\ ss.passed_blocks["A1"] = 1
  /\ ss.block.level = "A2"
  /\ ~ss.finished

\* The same in app.py: a failed and then a passed A1 block, the streak at 1.
C27_WitnessApp ==
  /\ App
  /\ Len(adaptive.block_results) = 2
  /\ adaptive.block_results[1] = [level |-> "A1", success |-> FALSE]
  /\ adaptive.block_results[2] = [level |-> "A1", success |-> TRUE]
  /\ adaptive.success_streaks["A1"] = 1
  /\ adaptive.current_block.level = "A2"

\* Number of passed blocks at `level` in a block-result log.
Passes(log, passedOf(_), level) ==
  Cardinality({i \in 1..Len(log) : log[i].level = level /\ passedOf(log[i])})

\* C28: while the session is unfinished the level index never decreases and
\* grows only by 1, exactly when a block at the current level closes as
\* passed; at a current level k > 0 every level below k has exactly one
\* recorded pass, and in app.py last_successful_level is the level immediately
\* below the current one.
C28_LevelClimbsByPasses ==
  [][ /\ (English /\ ~ss.finished /\ ~ss'.finished /\ ss' # ss) =>
           /\ ss'.level_idx \in {ss.level_idx, ss.level_idx + 1}
           /\ (ss'.level_idx = ss.level_idx + 1) <=>
                 /\ Len(ss'.block_results) = Len(ss.block_results) + 1
                 /\ ss'.last_result.passed
                 /\ ss'.last_result.level = LevelAt(ss.level_idx)
           /\ \A k \in 0..(ss'.level_idx - 1) :
                 /\ ss'.passed_blocks[LevelAt(k)] = 1
                 /\ Passes(ss'.block_results, PassedField, LevelAt(k)) = 1
      /\ (App /\ ~adaptive.finished /\ ~adaptive'.finished /\ adaptive' # adaptive) =>
           /\ adaptive'.current_level_idx
                \in {adaptive.current_level_idx, adaptive.current_level_idx + 1}
           /\ (adaptive'.current_level_idx = adaptive.current_level_idx + 1) <=>
                 /\ Len(adaptive'.block_results) = Len(adaptive.block_results) + 1
                 /\ adaptive'.last_result.success
                 /\ adaptive'.last_result.level = LevelAt(adaptive.current_level_idx)
           /\ \A k \in 0..(adaptive'.current_level_idx - 1) :
                 /\ adaptive'.success_streaks[LevelAt(k)] = 1
                 /\ Passes(adaptive'.block_results, SuccessField, LevelAt(k)) = 1
           /\ adaptive'.current_level_idx > 0 =>
                 adaptive'.last_successful_level
                    = LevelAt(adaptive'.current_level_idx - 1) ]_vars

\* english_test_app has just been promoted to B1 by a pass at A2, after a
\* failed and a passed block at A1.
C28_Witness ==
  /\ English
  /\ ~ss.finished
  /\ ss.level_idx = 2
  /\ ss.block = new_block("B1")
  /\ Len(ss.block_results) = 3
  /\ ~ss.block_results[1].passed
  /\ ss.last_result.level = "A2"
  /\ ss.last_result.passed

\* app.py has just been promoted to B1 by a pass at A2.
C28_WitnessApp ==
  /\ App
  /\ ~adaptive.finished
  /\ adaptive.current_level_idx = 2
  /\ adaptive.current_block.answered = 0
  /\ adaptive.last_result.level = "A2"
  /\ adaptive.last_result.success
  /\ adaptive.last_successful_level = "A2"

\* C29: in english_test_app every folded answer is counted in a block of the
\* answered question's level, and never in a block that was already closed.
C29_FoldedInOwnOpenBlock ==
  [][ (English /\ ss'.history.len = ss.history.len + 1) =>
        /\ ss'.history.last.level = ss.block.level
        /\ ~block_finished(ss.block) ]_vars

\* C26: in both engines every session eventually reaches finished == True,
\* whatever the answers are.
C26_Terminates ==
  <>((English /\ ss.finished) \/ (App /\ adaptive.finished))

\* A session of english_test_app that failed block after block at A1 until the
\* 50th answer ended it.
C26_Witness ==
  /\ English
  /\ ss.finished
  /\ ss.history.len = MAX_QUESTIONS
  /\ Len(ss.block_results) >= 5
  /\ \A i \in 1..Len(ss.block_results) :
        ss.block_results[i] = [level |-> "A1", passed |-> FALSE]

COMPOSITE_TYPES == {"cloze_mc", "cloze_open", "word_formation", "key_transform"}

\* The response given to one sub-element is the expected one.
SubCorrect(question, item, response) ==
  LET user_value == ResponseGet(response, item.number)
  IN  IF question.type = "cloze_mc" THEN user_value = item.answer
      ELSE IF question.type = "key_transform"
        THEN \/ normalize_for_comparison(user_value) = normalize_for_comparison(item.answer)
             \/ \E alternative \in item.alternatives :
                   normalize_for_comparison(user_value)
                      = normalize_for_comparison(alternative)
      ELSE normalize_for_comparison(user_value) = normalize_for_comparison(item.answer)

\* C24: the score recorded for a composite item is correct iff every
\* sub-element is correct, with one breakdown entry per sub-element (a
\* key_transform sub-element being correct iff the normalized response is the
\* normalized answer or a normalized alternative); the score of a
\* multiple_choice item is correct iff the response equals the answer.
C24_CompositeScore ==
  [][ (form.question # NoQuestion /\ form'.question = NoQuestion) =>
        LET question == form.question
            items == SubItems(question)
            score == form'.feedback.score
        IN  /\ question.type \in COMPOSITE_TYPES =>
                 /\ Len(score.breakdown) = Len(items)
                 /\ \A i \in 1..Len(items) :
                       /\ score.breakdown[i].number = items[i].number
                       /\ score.breakdown[i].correct
                            <=> SubCorrect(question, items[i], form.response)
                 /\ score.is_correct
                      <=> \A i \in 1..Len(items) :
                             SubCorrect(question, items[i], form.response)
            /\ question.type = "multiple_choice" =>
                 (score.is_correct <=> form.response = question.answer) ]_vars

\* A cloze_open answer was recorded with its first gap right and its second
\* gap wrong, and scored as not correct.
C24_Witness ==
  /\ form.feedback.type = "cloze_open"
  /\ Len(form.feedback.score.breakdown) = 2
  /\ form.feedback.score.breakdown[1].correct
  /\ ~form.feedback.score.breakdown[2].correct
  /\ ~form.feedback.score.is_correct

\* A key_transform answer was recorded as correct.
C24_WitnessTransform ==
  /\ form.feedback.type = "key_transform"
  /\ form.feedback.score.breakdown[1].correct
  /\ form.feedback.score.is_correct

\* The step is a call of pick_question_for_block.
Picks == draw.returned = <<>> /\ draw'.returned # <<>> /\ draw'.call = "pick"

\* C21: pick_question_for_block on a non-empty level: an unused item of the
\* desired skill sequence[presented mod len(sequence)] when there is one,
\* else an unused item when there is one; a used item only when every item is
\* used, used_ids then being exactly the returned id; the returned id is in
\* used_ids after the call.
C21_PickFallbackOrder ==
  [][ Picks =>
        LET level == draw.level
            items == draw.questions_by_level[level]
            used == draw.block.used_ids
            sequence == IF level \in {"B2", "C1", "C2"}
                          THEN <<"grammar", "vocab", "reading", "use_of_english", "writing">>
                          ELSE <<"grammar", "vocab", "reading", "use_of_english">>
            desired == sequence[(draw.block.presented % Len(sequence)) + 1]
            unused == {i \in 1..Len(items) : items[i].id \notin used}
            got == draw'.returned[1]
        IN  /\ Len(draw'.returned) = 1
            /\ \E i \in 1..Len(items) : items[i].id = got.id /\ items[i].skill = got.skill
            /\ (\E i \in unused : items[i].skill = desired) =>
                  (got.skill = desired /\ got.id \notin used)
            /\ unused # {} => got.id \notin used
            /\ got.id \in used =>
                  (unused = {} /\ draw'.block.used_ids = {got.id})
            /\ got.id \in draw'.block.used_ids ]_vars

\* The pool of a two-item level was exhausted: the third pick returned a used
\* item and used_ids was reset to its id.
C21_Witness ==
  /\ draw.call = "pick"
  /\ draw.level # None
  /\ Len(draw.questions_by_level[draw.level]) = 2
  /\ draw.block.presented = 2
  /\ Len(draw.returned) = 1
  /\ draw.block.used_ids = {draw.returned[1].id}

\* No item of the desired skill was left and another unused item was returned.
C21_WitnessFallback ==
  /\ draw.call = "pick"
  /\ draw.level = "A1"
  /\ draw.block.presented = 1
  /\ Len(draw.returned) = 1
  /\ draw.returned[1].skill = "writing"
  /\ Cardinality(draw.block.used_ids) = 2

\* options is an arrangement of the same values as original.
IsPermutation(options, original) ==
  /\ Len(options) = Len(original)
  /\ \A i \in 1..Len(original) :
        Cardinality({j \in 1..Len(options) : options[j] = original[i]})
          = Cardinality({j \in 1..Len(original) : original[j] = original[i]})

\* instance is question with nothing changed but the order of its options.
InstanceOf(instance, question) ==
  /\ instance.id = question.id
  /\ instance.answer = question.answer
  /\ IsPermutation(instance.options, question.options)
  /\ question.type = "multiple_choice" =>
        \E j \in 1..Len(instance.options) : instance.options[j] = instance.answer
  /\ Len(instance.cloze_items) = Len(question.cloze_items)
  /\ \A g \in 1..Len(question.cloze_items) :
        /\ instance.cloze_items[g].number = question.cloze_items[g].number
        /\ instance.cloze_items[g].answer = question.cloze_items[g].answer
        /\ question.type = "cloze_mc" =>
              /\ IsPermutation(instance.cloze_items[g].options,
                               question.cloze_items[g].options)
              /\ \E j \in 1..Len(instance.cloze_items[g].options) :
                    instance.cloze_items[g].options[j] = instance.cloze_items[g].answer

\* C22: drawing questions never changes the catalog, and every returned
\* instance is its catalog entry with the options in some order and the same
\* answer, the answer being one of the instance's options.
C22_CatalogUntouched ==
  [][ /\ draw'.questions_by_level = draw.questions_by_level
      /\ \A n \in 1..Len(draw'.returned) :
            \E i \in 1..Len(draw.questions_by_level[draw.level]) :
               InstanceOf(draw'.returned[n], draw.questions_by_level[draw.level][i]) ]_vars

\* start_group_for_block returned the two questions of group g1, the second
\* with its three options in another order than the catalog's.
C22_Witness ==
  /\ draw.call = "start_group"
  /\ Len(draw.returned) = 2
  /\ draw.returned[2].id = "G2"
  /\ draw.returned[2].options # Options3
  /\ \E i \in 1..Len(draw.questions_by_level[draw.level]) :
        /\ draw.questions_by_level[draw.level][i].id = "G2"
        /\ draw.questions_by_level[draw.level][i].options = Options3

\* pick_question_for_block returned a cloze item with the options of a gap in
\* another order than the catalog's.
C22_WitnessPick ==
  /\ draw.call = "pick"
  /\ Len(draw.returned) = 1
  /\ draw.returned[1].id = "CM"
  /\ draw.returned[1].cloze_items[2].options # Choices

\* C30: in app.py a current block holds exactly block_size eligible questions
\* (distinct ids) with index == answered < block_size, and a question listed
\* in the level's used list is drawn again only when fewer than block_size
\* unused eligible items remained and the used list was reset (it then lists
\* the new questions only).
C30_BlockQuestions ==
  [][ /\ blocks'.current =>
           /\ blocks'.questions \subseteq blocks'.eligible
           /\ Cardinality(blocks'.questions) = blocks'.block_size
           /\ blocks'.index = blocks'.answered
           /\ blocks'.answered < blocks'.block_size
      /\ (blocks'.started = blocks.started + 1
            /\ blocks'.questions \cap blocks.used_questions # {}) =>
           /\ Cardinality(blocks.eligible \ blocks.used_questions) < blocks'.block_size
           /\ blocks'.used_questions = blocks'.questions ]_vars

\* A second A1 block was drawn from the ten unused items of a rich pool,
\* without a repeat, and three of its questions have been answered.
C30_Witness ==
  /\ blocks.current
  /\ blocks.started = 2
  /\ Cardinality(blocks.eligible) = RichPool
  /\ blocks.used_questions = blocks.eligible
  /\ Cardinality(blocks.questions) = 10
  /\ blocks.index = 3

\* A second A1 block was drawn from a full pool after the used list was reset,
\* with questions of the first block among its own.
C30_WitnessReset ==
  /\ blocks.current
  /\ blocks.started = 2
  /\ Cardinality(blocks.eligible) = FullPool
  /\ blocks.used_questions = blocks.questions
  /\ blocks.index = 0
====
